---- MODULE Spec2Model ----
(***************************************************************************)
(* Model of the conversational extraction engine of the symptom tracker.   *)
(*                                                                         *)
(* Part 1: processChatMessage (src/src/claudeService.ts), the retry /      *)
(* tool-use loop around the external generator.                            *)
(*                                                                         *)
(* Strings are modelled as sequences of string fragments, so that the     *)
(* template literals of the source become concatenations (\o) and the     *)
(* empty string is << >>.                                                  *)
(***************************************************************************)
EXTENDS Integers, Sequences, FiniteSets, TLC

VARIABLES
    pc,               \* position in processChatMessage: "loop", "tools", "sleep", "done"
    maxRetries,       \* parameter maxRetries (default 3)
    messages,         \* const messages: Anthropic.MessageParam[]
    attempt,          \* loop variable of the for loop
    totalIterations,  \* let totalIterations
    lastError,        \* let lastError: string
    response,         \* the Anthropic.Message of the current iteration
    toolResults,      \* const toolResults: ToolResultBlockParam[]
    delay,            \* argument of the pending sleep(delay)
    pending,          \* messages pushed once the pending sleep has resolved
    outcome,          \* "running", "returned" or "thrown"
    result,           \* the ConversationResult returned
    thrown,           \* message of the Error thrown
    sentLog,          \* history: the messages array sent at each generator invocation
    respLog,          \* history: what each generator invocation produced
    sleepLog,         \* history: every sleep that resolved, with the attempt it followed
    execLog,          \* history: tool_use ids in the order executeToolCall ran
    store,            \* localStorage: the stored symptoms, issues and symptom todos
    ui,               \* state of the ChatInterface component (its useState cells)
    probe             \* the call under test of a function checked on its own

\* the variables of one processChatMessage call
turnVars == <<pc, maxRetries, messages, attempt, totalIterations, lastError, response,
              toolResults, delay, pending, outcome, result, thrown,
              sentLog, respLog, sleepLog, execLog>>

vars == <<pc, maxRetries, messages, attempt, totalIterations, lastError, response,
          toolResults, delay, pending, outcome, result, thrown,
          sentLog, respLog, sleepLog, execLog, store, ui, probe>>

----------------------------------------------------------------------------
(* Bounds of the model *)

\* largest maxRetries argument explored (the default 3 is included)
MaxRetriesBound == 6

----------------------------------------------------------------------------
(* Program constants *)

DefaultMaxRetries == 3

MAX_TOTAL_ITERATIONS == 5

BackoffBase == 100

BackoffCap == 1000

----------------------------------------------------------------------------
(* JavaScript values and the clock *)

\* JSON / JavaScript values.  t is the type; s the text of a string; n and
\* whole the value of a number (n + 1/2 when whole is FALSE); date says how a
\* string reads as a date: fmt "ymd" when it matches /^\d{4}-\d{2}-\d{2}$/,
\* parse "real" for a calendar date (its day number is day), "rollover" for
\* day-of-month overflow such as 2025-02-30 (day is the date it rolls over
\* to), "never" for a month or day no engine accepts such as 2025-13-45.
NoDate == [fmt |-> "other", parse |-> "never", day |-> 0]

JsValue(t, s, n, whole, date) ==
    [t |-> t, s |-> s, n |-> n, whole |-> whole, date |-> date]

Undefined == JsValue("undefined", "", 0, TRUE, NoDate)

Null == JsValue("null", "", 0, TRUE, NoDate)

Str(s) == JsValue("string", s, 0, TRUE, NoDate)

Num(n) == JsValue("number", "", n, TRUE, NoDate)

Half(n) == JsValue("number", "", n, FALSE, NoDate)

DateStr(parse, day) ==
    JsValue("string", "YYYY-MM-DD", 0, TRUE, [fmt |-> "ymd", parse |-> parse, day |-> day])

\* enum Location
Location ==
    { "head", "neck", "throat", "jaw", "ear", "eye", "chest", "upper_back",
      "lower_back", "abdomen", "shoulder", "arm", "elbow", "wrist", "hand",
      "hip", "leg", "knee", "ankle", "foot", "other" }

\* The clock.  Time is counted in hours since 00:00 UTC of day 0; now is the
\* current instant, tz the local UTC offset in hours, lenient whether the
\* engine's Date parser rolls day-of-month overflow over (V8) or rejects it.
HoursPerDay == 24

Floor24(h) == h \div HoursPerDay

\* the local calendar day of the instant env.now
LocalDay(env) == Floor24(env.now + env.tz)

\* new Date(value).getTime() of a date-only string: UTC midnight of the date;
\* nan is TRUE for Invalid Date
DateParse(value, env) ==
    IF value.t = "string" /\ value.date.fmt = "ymd"
         /\ (value.date.parse = "real" \/ (value.date.parse = "rollover" /\ env.lenient))
    THEN [nan |-> FALSE, time |-> HoursPerDay * value.date.day]
    ELSE [nan |-> TRUE, time |-> 0]

\* today.setHours(23, 59, 59, 999): the last instant of the local day, as a
\* UTC instant (the last hour tick stands for 23:59:59.999)
EndOfToday(env) == HoursPerDay * (LocalDay(env) + 1) - env.tz - 1

----------------------------------------------------------------------------
(* Messages *)

\* One Anthropic.MessageParam.  text is the string content (fragments),
\* blocks the content blocks of a tool_use / tool_result message.
Msg(role, tag, text, blocks) ==
    [role |-> role, tag |-> tag, text |-> text, blocks |-> blocks]

UserMessage == Msg("user", "utterance", <<"userMessage">>, << >>)

SystemReminder ==
    Msg("user", "reminder",
        <<"SYSTEM REMINDER: You must respond with valid JSON format">>, << >>)

\* conversationHistory arguments explored: empty, or one earlier exchange
Histories ==
    { << >>,
      << Msg("user", "history", <<"h1">>, << >>),
         Msg("assistant", "history", <<"h2">>, << >>) >> }

\* lines 79-102: history, optional format reminder, then the new user message
BuildMessages(conversationHistory, isMultiSymptomContinuation) ==
    conversationHistory
      \o (IF isMultiSymptomContinuation /\ Len(conversationHistory) > 0
          THEN << SystemReminder >> ELSE << >>)
      \o << UserMessage >>

----------------------------------------------------------------------------
(* The external generator (client.messages.create / stream) *)

\* the input of a get_symptom_history request (SymptomHistoryToolInput)
HistoryInput(query_type, location, issue_id, days_back, limit) ==
    [t |-> "object", query_type |-> query_type, location |-> location,
     issue_id |-> issue_id, days_back |-> days_back, limit |-> limit]

\* the symptoms argument of manage_symptom_todos: t is its type and items
\* the subjects of an array
Symptoms(t, items) == [t |-> t, items |-> items]

\* the input of a manage_symptom_todos request (SymptomTodoToolInput);
\* symptoms is [t, items]: its type and, for an array, its subjects
TodoInput(operation, symptoms, todo_id) ==
    [t |-> "object", operation |-> operation, symptoms |-> symptoms,
     todo_id |-> todo_id]

\* an input that is not an object: null or undefined
NonObjectInput(t) == [t |-> t]

\* one tool_use block: id, name and input
ToolBlock(id, name, input) == [id |-> id, text |-> <<name>>, input |-> input]

\* tool_use blocks a response can carry: one unknown tool, or two known tools
ToolBlockSeqs ==
    { << ToolBlock("toolu_3", "no_such_tool", NonObjectInput("undefined")) >>,
      << ToolBlock("toolu_2", "manage_symptom_todos",
                   TodoInput(Str("add"),
                             Symptoms("array", << <<"a", "b">> >>),
                             Undefined)),
         ToolBlock("toolu_1", "get_symptom_history",
                   HistoryInput(Str("recent"), Undefined, Undefined, Undefined,
                                Undefined)) >> }

\* text bodies a response can carry (textContent.text); "[fence json]" and
\* "[fence]" stand for the markdown code fence markers.  In order: two valid
\* records, a fenced object whose location is outside the vocabulary, the
\* JSON value null, and text that is not JSON
Texts ==
    { <<"{metadata:r1}">>,
      <<"{metadata:r2}">>,
      <<"[fence json]", "{metadata:badLocation}", "[fence]">>,
      <<"null">>,
      <<"Sorry, here is some prose">> }

\* messages of the errors the SDK call rejects with (API error, 15 s timeout)
ApiErrors == { <<"Request timed out.">> }

Resp(kind, text, blocks) == [kind |-> kind, text |-> text, blocks |-> blocks]

NoResponse == Resp("none", << >>, << >>)

\* everything one generator invocation can produce
Responses ==
    { Resp("error", e, << >>) : e \in ApiErrors }
      \cup { Resp("tool_use", << >>, b) : b \in ToolBlockSeqs }
      \cup { Resp("text", t, << >>) : t \in Texts }
      \cup { Resp("notext", << >>, << >>) }

----------------------------------------------------------------------------
(* Parsing and validation *)

\* lines 254-261: trim, then remove markdown code fences
StripFences(text) ==
    IF Len(text) > 0 /\ text[1] \in {"[fence json]", "[fence]"}
    THEN SelectSeq(text, LAMBDA f : f \notin {"[fence json]", "[fence]"})
    ELSE text

\* JSON.parse(jsonText): ok = FALSE when it throws a SyntaxError
JSONparse(jsonText) ==
    CASE jsonText = <<"{metadata:r1}">> ->
           [ok |-> TRUE, isNull |-> FALSE, metadata |-> "r1"]
      [] jsonText = <<"{metadata:r2}">> ->
           [ok |-> TRUE, isNull |-> FALSE, metadata |-> "r2"]
      [] jsonText = <<"{metadata:badLocation}">> ->
           [ok |-> TRUE, isNull |-> FALSE, metadata |-> "badLocation"]
      [] jsonText = <<"null">> ->
           [ok |-> TRUE, isNull |-> TRUE, metadata |-> "undefined"]
      [] OTHER ->
           [ok |-> FALSE, isNull |-> FALSE, metadata |-> "undefined"]

SyntaxErrorMessage == <<"Unexpected token S in JSON at position 0">>

NullPropertyMessage == <<"Cannot read properties of null (reading 'metadata')">>

\* metadata values whose location, onset and severity each pass their check
ValidMetadata == {"r1", "r2"}

\* parseAndValidate(data): ValidationResult
parseAndValidate(parsed) ==
    IF parsed.isNull
    THEN [success |-> FALSE, error |-> <<"Invalid response format">>,
          message |-> <<"Response must be a valid JSON object">>]
    ELSE IF parsed.metadata = "undefined"
    THEN [success |-> FALSE, error |-> <<"Missing metadata">>,
          message |-> <<"Response must include a \"metadata\" field">>]
    ELSE IF parsed.metadata \notin ValidMetadata
    THEN [success |-> FALSE, error |-> <<"Invalid location">>,
          message |-> <<"Location must be one of: ..., or null. Received: ", "badLocation">>]
    ELSE [success |-> TRUE, error |-> << >>, message |-> << >>]

\* generateErrorFeedback(validationResult)
generateErrorFeedback(validationResult) ==
    IF validationResult.success
    THEN << >>
    ELSE <<"Error: ">> \o validationResult.error \o <<"\n">>
           \o validationResult.message
           \o <<"\n\nPlease ensure your response: ...">>

\* RETRY_PROMPT(errorMessage)
RETRY_PROMPT(errorMessage) ==
    <<"The previous response had an error: ">> \o errorMessage
      \o <<"Please correct the response and ensure it follows the exact JSON format">>

\* a || b on strings: the first non-empty one
OrElse(a, b) == IF a /= << >> THEN a ELSE b

----------------------------------------------------------------------------
(* localStorage.ts *)

\* a value is truthy: if (value)
Truthy(value) ==
    \/ value.t = "string" /\ value.s /= ""
    \/ value.t = "number" /\ (value.n /= 0 \/ ~value.whole)

\* NaN
NaN == JsValue("nan", "", 0, TRUE, NoDate)

\* twice the value of a number, to compare n and n + 1/2 as integers
Twice(v) == 2 * v.n + (IF v.whole THEN 0 ELSE 1)

\* ToNumber of a tool argument: null is 0, a (non-numeric) string or
\* undefined is NaN.  Here and below a value that is used more than once is
\* bound as the element of a singleton set, CHOOSE r \in {e(x) : x \in {v}},
\* which is e(v) with v computed once
ToNumber(v) ==
    CHOOSE n \in { IF x.t = "number" THEN x
                   ELSE IF x.t = "null" THEN Num(0)
                   ELSE NaN : x \in {v} } : TRUE

\* Math.max(a, b) and Math.min(a, b) after ToNumber
MathMax(a, b) ==
    CHOOSE m \in { IF x.t = "nan" \/ y.t = "nan" THEN NaN
                   ELSE IF Twice(x) >= Twice(y) THEN x ELSE y
                   : x \in {ToNumber(a)}, y \in {ToNumber(b)} } : TRUE

MathMin(a, b) ==
    CHOOSE m \in { IF x.t = "nan" \/ y.t = "nan" THEN NaN
                   ELSE IF Twice(x) <= Twice(y) THEN x ELSE y
                   : x \in {ToNumber(a)}, y \in {ToNumber(b)} } : TRUE

\* String(v) of a number
NumberText(v) ==
    IF v.t = "nan" THEN <<"NaN">>
    ELSE IF v.whole THEN <<ToString(v.n)>>
    ELSE <<ToString(v.n), ".5">>

\* a stored SymptomEntry: onset is null or a date string, timestamp the
\* hour it was saved, issueId "" when the entry is linked to no issue
SymptomEntry(id, location, onset, severity, timestamp, issueId) ==
    [id |-> id, location |-> location, onset |-> onset, severity |-> severity,
     timestamp |-> timestamp, issueId |-> issueId]

\* no draft is stored under DRAFT_KEY: getItem returns null
NoDraft == [t |-> "null"]

\* the stored data: symptoms and issues under STORAGE_KEY, the pending todo
\* items and the source of their ids, and the draft under DRAFT_KEY
EmptyStore ==
    [symptoms |-> << >>, issues |-> << >>, todos |-> << >>, todoIds |-> 0,
     draft |-> NoDraft]

\* getData(): a fresh copy of the stored data; the empty data when reading
\* localStorage fails
getData(st, fails) ==
    IF fails THEN [symptoms |-> << >>, issues |-> << >>]
    ELSE [symptoms |-> st.symptoms, issues |-> st.issues]

\* getSymptoms()
getSymptoms(st, fails) == getData(st, fails).symptoms

\* symptoms.sort((a, b) => b.timestamp.getTime() - a.timestamp.getTime()):
\* stable, most recent first
RECURSIVE InsertByTimestamp(_, _)
InsertByTimestamp(sorted, e) ==
    IF sorted = << >> THEN <<e>>
    ELSE IF Head(sorted).timestamp >= e.timestamp
         THEN <<Head(sorted)>> \o InsertByTimestamp(Tail(sorted), e)
         ELSE <<e>> \o sorted

RECURSIVE SortByTimestamp(_)
SortByTimestamp(symptoms) ==
    IF symptoms = << >> THEN << >>
    ELSE InsertByTimestamp(SortByTimestamp(SubSeq(symptoms, 1, Len(symptoms) - 1)),
                           symptoms[Len(symptoms)])

\* a >= b and a <= b on two ISO date strings; false when either is no string
DateGE(a, b) == a.t = "string" /\ b.t = "string" /\ a.date.day >= b.date.day

DateLE(a, b) == a.t = "string" /\ b.t = "string" /\ a.date.day <= b.date.day

\* symptoms.slice(startIndex, startIndex + limit) with page = 1
Slice(symptoms, limit) ==
    CHOOSE page \in { IF n.t = "nan" THEN << >>
                      ELSE IF n.n <= 0 THEN << >>
                      ELSE SubSeq(all, 1, IF n.n <= Len(all) THEN n.n ELSE Len(all))
                      : all \in {symptoms}, n \in {ToNumber(limit)} } : TRUE

\* getFilteredSymptoms({location, issueId, startDate, endDate, limit})
getFilteredSymptoms(options, st, fails) ==
    LET all == getSymptoms(st, fails)
        f1 == IF Truthy(options.location)
              THEN SelectSeq(all, LAMBDA e : e.location = options.location.s) ELSE all
        f2 == IF options.issueId.t /= "undefined"
              THEN SelectSeq(f1, LAMBDA e : IF options.issueId.t = "null"
                                            THEN e.issueId = ""
                                            ELSE e.issueId = options.issueId.s)
              ELSE f1
        f3 == IF Truthy(options.startDate)
              THEN SelectSeq(f2, LAMBDA e : DateGE(e.onset, options.startDate)) ELSE f2
        f4 == IF Truthy(options.endDate)
              THEN SelectSeq(f3, LAMBDA e : DateLE(e.onset, options.endDate)) ELSE f3
    IN  CHOOSE page \in
          { [symptoms |-> Slice(sorted, IF options.limit.t = "undefined" THEN Num(10)
                                        ELSE options.limit),
             total |-> Len(sorted)] : sorted \in {SortByTimestamp(f4)} } : TRUE

\* mutant: getSymptoms hands out the stored array itself, so that the sort
\* of getFilteredSymptoms reorders the stored symptoms
StoredAfterQueryInPlace(st, fails) ==
    IF fails THEN st ELSE [st EXCEPT !.symptoms = SortByTimestamp(@)]

\* the stored data after getFilteredSymptoms: getData parsed a fresh copy
\* (JSON.parse, line 27), so filtering and sorting it leave the stored data
\* as they were
StoredAfterQuery(st, fails) == st

FilterOptions(location, issueId, startDate, endDate, limit) ==
    [location |-> location, issueId |-> issueId, startDate |-> startDate,
     endDate |-> endDate, limit |-> limit]

----------------------------------------------------------------------------
(* The todo queue of localStorage.ts: getSymptomTodos, addSymptomTodos,      *)
(* completeSymptomTodo and removeSymptomTodo.  A subject is a sequence of    *)
(* characters.                                                               *)

\* String.prototype.trim
RECURSIVE TrimStart(_)
TrimStart(text) ==
    IF text /= << >> /\ Head(text) = " " THEN TrimStart(Tail(text)) ELSE text

RECURSIVE TrimEnd(_)
TrimEnd(text) ==
    IF text /= << >> /\ text[Len(text)] = " "
    THEN TrimEnd(SubSeq(text, 1, Len(text) - 1)) ELSE text

Trim(text) == TrimEnd(TrimStart(text))

\* String.prototype.toLowerCase
LowerChar(c) ==
    CASE c = "A" -> "a"
      [] c = "B" -> "b"
      [] OTHER -> c

toLowerCase(text) ==
    CHOOSE lower \in { [i \in 1..Len(chars) |-> LowerChar(chars[i])] : chars \in {text} } : TRUE

\* the text two subjects are compared by
NormalizedSubject(text) == toLowerCase(Trim(text))

\* a pending item; ids are opaque and never reused
TodoItem(n, text) == [id |-> ToString(n), symptom |-> Trim(text)]

\* getSymptomTodos(): the pending items in insertion order
getSymptomTodos(st, fails) == IF fails THEN << >> ELSE st.todos

\* mutant: a subject is compared with the pending items as it was typed
IsDuplicateVerbatim(text, todos) ==
    \E i \in 1..Len(todos) : todos[i].symptom = text

\* text is the subject of one of the items todos
IsDuplicate(text, todos) ==
    \E subject \in {NormalizedSubject(text)}, queue \in {todos} :
        \E i \in 1..Len(queue) : NormalizedSubject(queue[i].symptom) = subject

\* the items addSymptomTodos creates for symptoms, given the pending items
\* and those created so far; n is the number of ids handed out
RECURSIVE NewTodos(_, _, _, _)
NewTodos(symptoms, todos, added, n) ==
    IF symptoms = << >> THEN added
    ELSE IF IsDuplicate(Head(symptoms), todos \o added)
         THEN NewTodos(Tail(symptoms), todos, added, n)
         ELSE NewTodos(Tail(symptoms), todos,
                       Append(added, TodoItem(n + 1, Head(symptoms))), n + 1)

\* addSymptomTodos(symptoms): returns the items added
addSymptomTodos(symptoms, st, fails) ==
    LET todos == getSymptomTodos(st, fails)
    IN  CHOOSE r \in
          { [added |-> added,
             store |-> [st EXCEPT !.todos = IF fails \/ added = << >> THEN @
                                           ELSE todos \o added,
                                  !.todoIds = @ + Len(added)]]
            : added \in {NewTodos(symptoms, todos, << >>, st.todoIds)} } : TRUE

\* completeSymptomTodo(id) and removeSymptomTodo(id): remove the item, false
\* when no pending item has the id
removeSymptomTodo(id, st, fails) ==
    LET todos == getSymptomTodos(st, fails)
        found == \E i \in 1..Len(todos) : todos[i].id = id
    IN  [success |-> found,
         store |-> IF found /\ ~fails
                   THEN [st EXCEPT !.todos = SelectSeq(todos, LAMBDA item : item.id /= id)]
                   ELSE st]

completeSymptomTodo(id, st, fails) == removeSymptomTodo(id, st, fails)

----------------------------------------------------------------------------
(* Issues and drafts of localStorage.ts *)

\* a stored Issue; endDate is undefined while none is set
Issue(id, name, status, startDate, endDate, symptomIds) ==
    [id |-> id, name |-> name, status |-> status, startDate |-> startDate,
     endDate |-> endDate, symptomIds |-> symptomIds]

\* mutant: the date range is not looked at
isValidDateRangeUnchecked(start, end, env) == TRUE

\* isValidDateRange(start, end): new Date(start) <= new Date(end), which is
\* false when either is Invalid Date; no end date is always valid
isValidDateRange(start, end, env) ==
    IF ~Truthy(end) THEN TRUE
    ELSE /\ ~DateParse(start, env).nan
         /\ ~DateParse(end, env).nan
         /\ DateParse(start, env).time <= DateParse(end, env).time

\* what a storage function that may throw comes to: the stored data
\* afterwards and whether it threw
Done(st) == [threw |-> FALSE, store |-> st]

Thrown(st) == [threw |-> TRUE, store |-> st]

\* setData(data) after data = getData(): nothing is written when the storage
\* fails
setData(symptoms, issues, st, fails) ==
    IF fails THEN st ELSE [st EXCEPT !.symptoms = symptoms, !.issues = issues]

\* data.issues.findIndex(i => i.id === id), 0 when there is none
IssueIndex(issues, id) ==
    IF \E k \in 1..Len(issues) : issues[k].id = id
    THEN CHOOSE k \in 1..Len(issues) :
           /\ issues[k].id = id
           /\ \A j \in 1..(k - 1) : issues[j].id /= id
    ELSE 0

\* saveIssue(issue)
saveIssue(issue, st, env) ==
    LET data == getData(st, env.fails)
        existingIndex == IssueIndex(data.issues, issue.id)
    IN  IF ~isValidDateRange(issue.startDate, issue.endDate, env) THEN Thrown(st)
        ELSE Done(setData(data.symptoms,
                          IF existingIndex > 0
                          THEN [data.issues EXCEPT ![existingIndex] = issue]
                          ELSE Append(data.issues, issue),
                          st, env.fails))

\* getIssues(status)
getIssues(status, st, fails) ==
    SelectSeq(getData(st, fails).issues, LAMBDA i : i.status = status)

\* no argument
Absent == [t |-> "absent"]

\* { ...issue, ...updates }: the properties the updates have replace the issue's
Merged(issue, updates) ==
    [k \in DOMAIN issue |-> IF k \in DOMAIN updates THEN updates[k] ELSE issue[k]]

\* updateIssue(id, updates)
updateIssue(id, updates, st, env) ==
    LET data == getData(st, env.fails)
        issueIndex == IssueIndex(data.issues, id)
    IN  IF issueIndex = 0 THEN Thrown(st)
        ELSE LET updatedIssue == Merged(data.issues[issueIndex], updates)
             IN  IF ~isValidDateRange(updatedIssue.startDate, updatedIssue.endDate, env)
                 THEN Thrown(st)
                 ELSE Done(setData(data.symptoms,
                                   [data.issues EXCEPT ![issueIndex] = updatedIssue],
                                   st, env.fails))

\* resolveIssue(issueId, endDate)
resolveIssue(issueId, endDate, st, env) ==
    updateIssue(issueId,
                [status |-> "resolved", endDate |-> endDate],
                st, env)

\* mutant: the member records are deleted with the issue
deleteIssueWithMembers(id, st, env) ==
    LET data == getData(st, env.fails)
    IN  Done(setData(SelectSeq(data.symptoms, LAMBDA s : s.issueId /= id),
                     SelectSeq(data.issues, LAMBDA i : i.id /= id),
                     st, env.fails))

\* deleteIssue(id)
deleteIssue(id, st, env) ==
    LET data == getData(st, env.fails)
        unlinked == [k \in 1..Len(data.symptoms) |->
                       IF data.symptoms[k].issueId = id
                       THEN [data.symptoms[k] EXCEPT !.issueId = ""]
                       ELSE data.symptoms[k]]
    IN  Done(setData(unlinked, SelectSeq(data.issues, LAMBDA i : i.id /= id),
                     st, env.fails))

\* linkSymptomToIssue(symptomId, issueId)
linkSymptomToIssue(symptomId, issueId, st, env) ==
    LET data == getData(st, env.fails)
        found == /\ \E k \in 1..Len(data.symptoms) : data.symptoms[k].id = symptomId
                 /\ IssueIndex(data.issues, issueId) > 0
    IN  IF ~found THEN Thrown(st)
        ELSE Done(setData(
               [k \in 1..Len(data.symptoms) |->
                  IF data.symptoms[k].id = symptomId
                  THEN [data.symptoms[k] EXCEPT !.issueId = issueId]
                  ELSE data.symptoms[k]],
               [k \in 1..Len(data.issues) |->
                  IF data.issues[k].id = issueId
                       /\ \A j \in 1..Len(data.issues[k].symptomIds) :
                            data.issues[k].symptomIds[j] /= symptomId
                  THEN [data.issues[k] EXCEPT !.symptomIds = Append(@, symptomId)]
                  ELSE data.issues[k]],
               st, env.fails))

\* milliseconds in an hour: the drafts are stamped in milliseconds
MsPerHour == 60 * 60 * 1000

\* const twentyFourHours = 24 * 60 * 60 * 1000
twentyFourHours == 24 * 60 * 60 * 1000

\* mutant: a draft expires when it is exactly 24 hours old
isDraftExpiredAtLimit(draft, now) == now - draft.timestamp >= twentyFourHours

\* isDraftExpired(draft), now the reading of new Date().getTime()
isDraftExpired(draft, now) == now - draft.timestamp > twentyFourHours

\* saveDraft(draft): the whole draft replaces what was stored
saveDraft(draft, st, fails) == IF fails THEN st ELSE [st EXCEPT !.draft = draft]

\* getDraft(): null when nothing is stored or reading fails
getDraft(st, fails) == IF fails THEN NoDraft ELSE st.draft

\* clearDraft()
clearDraft(st, fails) == IF fails THEN st ELSE [st EXCEPT !.draft = NoDraft]

----------------------------------------------------------------------------
(* Tool dispatch: toolHandlers.ts *)

\* `${v}` of a tool argument
Show(v) ==
    CASE v.t = "string" -> IF v.date.fmt = "ymd" THEN <<"date ", ToString(v.date.day)>>
                           ELSE <<v.s>>
      [] v.t = "number" -> NumberText(v)
      [] v.t = "nan" -> <<"NaN">>
      [] OTHER -> <<v.t>>

\* what a handler resolves to: the string text, the stored data afterwards
\* and, for a history query, the two clamped locals; threw is TRUE when the
\* body is left by an exception with message text instead
Reply(text, st) ==
    [threw |-> FALSE, text |-> text, store |-> st,
     safeDaysBack |-> Undefined, safeLimit |-> Undefined]

Throw(message, st) ==
    [threw |-> TRUE, text |-> message, store |-> st,
     safeDaysBack |-> Undefined, safeLimit |-> Undefined]

\* mutant: the handler has no catch clause
Uncaught(r, prefix) == r

\* catch (error) { return `${prefix}${error.message}` }
Caught(r, prefix) ==
    CHOOSE settled \in
        { IF out.threw THEN [out EXCEPT !.threw = FALSE, !.text = prefix \o out.text]
          ELSE out : out \in {r} } : TRUE

\* formatSymptomForDisplay(symptom)
formatSymptomForDisplay(symptom, env) ==
    <<"Date: ">> \o Show(symptom.onset)
      \o <<" (", ToString(Floor24(env.now - symptom.timestamp)), " days ago)",
           "Location: ", symptom.location, "Severity: ">>
      \o Show(symptom.severity) \o <<"/10">>
      \o (IF symptom.issueId /= "" THEN <<"Linked to Issue ID: ", symptom.issueId>>
          ELSE << >>)

\* symptoms.forEach((symptom, index) => ...)
RECURSIVE FormatEntries(_, _, _)
FormatEntries(symptoms, index, env) ==
    IF symptoms = << >> THEN << >>
    ELSE <<"Entry ", ToString(index), ":">>
           \o formatSymptomForDisplay(Head(symptoms), env)
           \o FormatEntries(Tail(symptoms), index + 1, env)

\* mutant: the limit is passed on as the generator gave it
ClampPassesThrough(value, default, lo, hi) ==
    IF value.t = "undefined" THEN Num(default) ELSE ToNumber(value)

\* const { x = default } = input; Math.min(Math.max(lo, x), hi)
Clamp(value, default, lo, hi) ==
    MathMin(MathMax(Num(lo), IF value.t = "undefined" THEN Num(default) ELSE value),
            Num(hi))

\* startDate.setDate(startDate.getDate() - safeDaysBack);
\* startDate.toISOString().split('T')[0]
StartDateStr(safeDaysBack, env) ==
    DateStr("real", Floor24(env.now) - safeDaysBack.n - (IF safeDaysBack.whole THEN 0 ELSE 1))

\* the try block of executeGetSymptomHistory (lines 66-150); the two clamped
\* locals are computed first (lines 69-70)
GetSymptomHistoryBody(input, st, env) ==
    IF input.t \in {"null", "undefined"}
    THEN Throw(<<"Cannot destructure property 'query_type' of 'input' as it is ",
                 input.t, ".">>, st)
    ELSE
    CHOOSE out \in {
    LET query_type == input.query_type
        location == input.location
        issue_id == input.issue_id
        tagged(r) == [r EXCEPT !.safeDaysBack = safeDaysBack, !.safeLimit = safeLimit]
        format(found) ==
            CHOOSE text \in {
            IF Len(symptoms) = 0
            THEN <<"No symptom entries found for query type \"">> \o Show(query_type)
                   \o <<"\"">>
                   \o (IF Truthy(location)
                       THEN <<" with location \"">> \o Show(location) \o <<"\"">>
                       ELSE << >>)
                   \o (IF Truthy(issue_id)
                       THEN <<" with issue ID \"">> \o Show(issue_id) \o <<"\"">>
                       ELSE << >>)
                   \o <<" in the last ">> \o NumberText(safeDaysBack) \o <<" days.">>
            ELSE <<"Found ", ToString(Len(symptoms)), " symptom entr",
                   IF Len(symptoms) = 1 THEN "y" ELSE "ies", ":">>
                   \o FormatEntries(symptoms, 1, env) : symptoms \in {found} } : TRUE
        query(options) == getFilteredSymptoms(options, st, env.fails).symptoms
        after == StoredAfterQuery(st, env.fails)
    IN  tagged(
        CASE query_type = Str("recent") ->
               Reply(format(query(FilterOptions(Undefined, Undefined, Undefined,
                                                Undefined, safeLimit))), after)
          [] query_type = Str("by_location") ->
               IF ~Truthy(location)
               THEN Reply(<<"Error: location parameter is required for by_location query type">>, st)
               ELSE IF safeDaysBack.t = "nan"
               THEN Throw(<<"Invalid time value">>, st)
               ELSE Reply(format(query(FilterOptions(location, Undefined,
                                                     StartDateStr(safeDaysBack, env),
                                                     Undefined, safeLimit))), after)
          [] query_type = Str("by_issue") ->
               IF ~Truthy(issue_id)
               THEN Reply(<<"Error: issue_id parameter is required for by_issue query type">>, st)
               ELSE Reply(format(query(FilterOptions(Undefined, issue_id, Undefined,
                                                     Undefined, safeLimit))), after)
          [] query_type = Str("by_date_range") ->
               IF safeDaysBack.t = "nan"
               THEN Throw(<<"Invalid time value">>, st)
               ELSE Reply(format(query(FilterOptions(Undefined, Undefined,
                                                     StartDateStr(safeDaysBack, env),
                                                     DateStr("real", Floor24(env.now)),
                                                     safeLimit))), after)
          [] OTHER ->
               Reply(<<"Error: Invalid query_type \"">> \o Show(query_type)
                       \o <<"\". Must be one of: recent, by_location, by_issue, by_date_range">>,
                     st))
        : safeDaysBack \in {Clamp(input.days_back, 30, 1, 365)},
          safeLimit \in {Clamp(input.limit, 10, 1, 50)} } : TRUE

\* executeGetSymptomHistory(input)
executeGetSymptomHistory(input, st, env) ==
    Caught(GetSymptomHistoryBody(input, st, env), <<"Error retrieving symptom history: ">>)

\* todos.map(t => `- ${t.symptom} (id: ${t.id})`).join('\n')
RECURSIVE TodoList(_)
TodoList(todos) ==
    IF todos = << >> THEN << >>
    ELSE <<"- ">> \o Head(todos).symptom \o <<" (id: ", Head(todos).id, ")">>
           \o TodoList(Tail(todos))

\* symptoms.join(', ')
RECURSIVE JoinComma(_)
JoinComma(symptoms) ==
    IF symptoms = << >> THEN << >>
    ELSE IF Len(symptoms) = 1 THEN Head(symptoms)
    ELSE Head(symptoms) \o <<", ">> \o JoinComma(Tail(symptoms))

\* the try block of executeManageSymptomTodos (lines 165-235)
ManageSymptomTodosBody(input, st, env) ==
    IF input.t \in {"null", "undefined"}
    THEN Throw(<<"Cannot destructure property 'operation' of 'input' as it is ",
                 input.t, ".">>, st)
    ELSE
    LET operation == input.operation
        symptoms == input.symptoms
        todo_id == input.todo_id
    IN  CASE operation = Str("add") ->
               IF symptoms.t \in {"undefined", "null"}
                    \/ (symptoms.t = "array" /\ Len(symptoms.items) = 0)
               THEN Reply(<<"Error: \"symptoms\" parameter is required for add operation">>, st)
               ELSE IF symptoms.t /= "array"
               THEN Throw(<<"symptoms is not iterable">>, st)
               ELSE CHOOSE out \in
                      { IF Len(r.added) = 0
                        THEN Reply(<<"All symptoms were already in the todo list (duplicates ignored): ">>
                                     \o JoinComma(symptoms.items), r.store)
                        ELSE Reply(<<"Added ", ToString(Len(r.added)), " symptom(s) to track:">>
                                     \o TodoList(r.added), r.store)
                        : r \in {addSymptomTodos(symptoms.items, st, env.fails)} } : TRUE
          [] operation = Str("list") ->
               LET todos == getSymptomTodos(st, env.fails)
               IN  IF Len(todos) = 0
                   THEN Reply(<<"No pending symptoms to log.">>, st)
                   ELSE Reply(<<"Pending symptoms to log (", ToString(Len(todos)), "):">>
                                \o TodoList(todos), st)
          [] operation = Str("complete") ->
               IF ~Truthy(todo_id)
               THEN Reply(<<"Error: \"todo_id\" parameter is required for complete operation">>, st)
               ELSE LET r == completeSymptomTodo(todo_id.s, st, env.fails)
                        remaining == getSymptomTodos(r.store, env.fails)
                    IN  IF ~r.success
                        THEN Reply(<<"Error: Todo with ID \"">> \o Show(todo_id)
                                     \o <<"\" not found">>, r.store)
                        ELSE IF Len(remaining) > 0
                        THEN Reply(<<"Symptom todo marked complete. ", ToString(Len(remaining)),
                                     " pending symptom(s) remain:">> \o TodoList(remaining),
                                   r.store)
                        ELSE Reply(<<"Symptom todo marked complete. No more pending symptoms.">>,
                                   r.store)
          [] operation = Str("remove") ->
               IF ~Truthy(todo_id)
               THEN Reply(<<"Error: \"todo_id\" parameter is required for remove operation">>, st)
               ELSE LET r == removeSymptomTodo(todo_id.s, st, env.fails)
                        remaining == getSymptomTodos(r.store, env.fails)
                    IN  IF ~r.success
                        THEN Reply(<<"Error: Todo with ID \"">> \o Show(todo_id)
                                     \o <<"\" not found">>, r.store)
                        ELSE IF Len(remaining) > 0
                        THEN Reply(<<"Symptom todo removed. ", ToString(Len(remaining)),
                                     " pending symptom(s) remain.">>, r.store)
                        ELSE Reply(<<"Symptom todo removed. No more pending symptoms.">>,
                                   r.store)
          [] OTHER ->
               Reply(<<"Error: Invalid operation \"">> \o Show(operation)
                       \o <<"\". Must be one of: add, complete, list, remove">>, st)

\* executeManageSymptomTodos(input)
executeManageSymptomTodos(input, st, env) ==
    Caught(ManageSymptomTodosBody(input, st, env), <<"Error managing symptom todos: ">>)

\* executeToolCall(toolName, toolInput): always resolves to a string
executeToolCall(toolName, toolInput, st, env) ==
    CASE toolName = <<"get_symptom_history">> -> executeGetSymptomHistory(toolInput, st, env)
      [] toolName = <<"manage_symptom_todos">> -> executeManageSymptomTodos(toolInput, st, env)
      [] OTHER -> Reply(<<"Error: Unknown tool \"">> \o toolName \o <<"\"">>, st)

\* the clock and the storage of a conversation turn
TurnEnv == [now |-> HoursPerDay * 10 + 2, tz |-> 0, lenient |-> FALSE, fails |-> FALSE]

\* one ToolResultBlockParam (lines 206-210) for what the handler resolved to
ToolResult(toolBlock, out) == [id |-> toolBlock.id, text |-> out.text]


----------------------------------------------------------------------------
(* processChatMessage *)

Min(a, b) == IF a <= b THEN a ELSE b

\* lines 329 and 358: Math.min(100 * Math.pow(2, attempt), 1000)
Backoff(a) == Min(BackoffBase * 2^a, BackoffCap)

\* mutant: the iteration budget is never enforced
IterationLimitNeverExceeded(t) == FALSE

\* line 112: totalIterations > MAX_TOTAL_ITERATIONS
IterationLimitExceeded(t) == t > MAX_TOTAL_ITERATIONS

\* mutant: a validation failure is never accepted
NeverLastAttempt(a, m) == FALSE

\* mutant: the validation failure is accepted one attempt early
IsLastAttemptEarly(a, m) == a >= m - 2

\* line 269: the attempt whose validation failure is accepted
IsLastAttempt(a, m) == a = m - 1

\* mutant: the catch block never schedules a retry
CatchNeverRetries(a, m) == FALSE

\* line 356: the catch block schedules a retry
CatchRetries(a, m) == a < m - 1

RetryMessage(errorMessage) ==
    Msg("user", "retry", RETRY_PROMPT(errorMessage), << >>)

\* mutant: the error feedback is pushed before the failed response
ValidationRetryMessagesSwapped(jsonText, validationResult) ==
    << Msg("user", "retry",
           <<"The previous response had an error: ">>
             \o generateErrorFeedback(validationResult)
             \o <<"Please correct the response and ensure it follows the exact JSON format">>,
           << >>),
       Msg("assistant", "raw", jsonText, << >>) >>

\* lines 332-336: the failed response, then the error feedback
ValidationRetryMessages(jsonText, validationResult) ==
    << Msg("assistant", "raw", jsonText, << >>),
       RetryMessage(generateErrorFeedback(validationResult)) >>

\* mutant: the catch block forgets to push the retry prompt
CatchRetryMessagesNone(errorMessage) == << >>

\* lines 360-363: the catch block pushes the retry prompt alone
CatchRetryMessages(errorMessage) == << RetryMessage(errorMessage) >>

\* mutant: the tool results are sent back in reverse order
ToolRoundTripMessagesReversed(content, results) ==
    << Msg("assistant", "tool_use", << >>, content),
       Msg("user", "tool_result", << >>,
           [j \in 1..Len(results) |-> results[Len(results) + 1 - j]]) >>

\* lines 228-238: the assistant's tool_use message, then the tool results
ToolRoundTripMessages(content, results) ==
    << Msg("assistant", "tool_use", << >>, content),
       Msg("user", "tool_result", << >>, results) >>

IterationLimitMessage ==
    <<"Maximum iterations (", ToString(MAX_TOTAL_ITERATIONS),
      ") exceeded. Conversation may be too complex.">>

\* lines 390-392
AllRetriesFailedMessage(m, err) ==
    <<"Failed to get valid response after ", ToString(m),
      " attempts. Last error: ">> \o err

NoResult == [metadata |-> "none"]

\* the ChatInterface component is not mounted
NoUi == [mounted |-> FALSE]

\* no function is under test
NoProbe == [fn |-> "none"]

Init ==
    /\ pc = "loop"
    /\ maxRetries \in 1..MaxRetriesBound
    /\ \E h \in Histories, c \in BOOLEAN : messages = BuildMessages(h, c)
    /\ attempt = 0
    /\ totalIterations = 0
    /\ lastError = << >>
    /\ response = NoResponse
    /\ toolResults = << >>
    /\ delay = 0
    /\ pending = << >>
    /\ outcome = "running"
    /\ result = NoResult
    /\ thrown = << >>
    /\ sentLog = << >>
    /\ respLog = << >>
    /\ sleepLog = << >>
    /\ execLog = << >>
    /\ store = EmptyStore
    /\ ui = NoUi
    /\ probe = NoProbe

\* lines 108-114 and 116-149: the loop head passes both guards and the
\* generator is invoked with the current messages; resp is what it produces
Invoke(resp) ==
    /\ pc = "loop"
    /\ attempt < maxRetries
    /\ ~IterationLimitExceeded(totalIterations + 1)
    /\ totalIterations' = totalIterations + 1
    /\ sentLog' = Append(sentLog, messages)
    /\ respLog' = Append(respLog, resp)
    /\ response' = resp
    /\ UNCHANGED <<maxRetries, sleepLog, execLog, thrown, store, ui, probe>>

\* lines 337-365: the catch block
Catch(errorMessage) ==
    /\ lastError' = errorMessage
    /\ IF CatchRetries(attempt, maxRetries)
       THEN /\ delay' = Backoff(attempt)
            /\ pending' = CatchRetryMessages(errorMessage)
            /\ pc' = "sleep"
            /\ UNCHANGED attempt
       ELSE /\ attempt' = attempt + 1
            /\ pc' = "loop"
            /\ UNCHANGED <<delay, pending>>
    /\ UNCHANGED <<messages, toolResults, outcome, result>>

\* the SDK call rejects (API error or timeout)
GeneratorError ==
    \E e \in ApiErrors :
        /\ Invoke(Resp("error", e, << >>))
        /\ Catch(e)

\* lines 175-199: stop_reason is tool_use
ToolUseResponse ==
    \E b \in ToolBlockSeqs :
        /\ Invoke(Resp("tool_use", << >>, b))
        /\ IF Len(b) = 0
           THEN Catch(<<"stop_reason was tool_use but no tool_use blocks found">>)
           ELSE /\ toolResults' = << >>
                /\ pc' = "tools"
                /\ UNCHANGED <<messages, attempt, lastError, delay, pending,
                               outcome, result>>

\* lines 246-252: no text block in the response
NoTextContent ==
    /\ Invoke(Resp("notext", << >>, << >>))
    /\ Catch(<<"No text content found in response">>)

\* lines 254-336: a text response is parsed, validated, and either returned
\* or answered with a retry
TextResponse ==
    \E t \in Texts :
        /\ Invoke(Resp("text", t, << >>))
        /\ LET jsonText == StripFences(t)
               parsed == JSONparse(jsonText)
               validationResult == parseAndValidate(parsed)
           IN  IF ~parsed.ok
               THEN Catch(SyntaxErrorMessage)
               ELSE IF validationResult.success \/ IsLastAttempt(attempt, maxRetries)
               THEN IF parsed.isNull
                    THEN Catch(NullPropertyMessage)
                    ELSE /\ result' = [metadata |-> parsed.metadata]
                         /\ outcome' = "returned"
                         /\ pc' = "done"
                         /\ UNCHANGED <<messages, attempt, lastError, toolResults,
                                        delay, pending>>
               ELSE /\ lastError' = OrElse(validationResult.message,
                                       OrElse(validationResult.error,
                                              <<"Validation failed">>))
                    /\ delay' = Backoff(attempt)
                    /\ pending' = ValidationRetryMessages(jsonText, validationResult)
                    /\ pc' = "sleep"
                    /\ UNCHANGED <<messages, attempt, toolResults, outcome, result>>

\* lines 201-243: one executeToolCall resolves; after the last one the two
\* messages are pushed and the loop continues
ExecuteTool ==
    /\ pc = "tools"
    /\ \E toolBlock \in {response.blocks[Len(toolResults) + 1]} :
       \E out \in {executeToolCall(toolBlock.text, toolBlock.input, store, TurnEnv)} :
       \E results \in {Append(toolResults, ToolResult(toolBlock, out))} :
           /\ toolResults' = results
           /\ store' = out.store
           /\ execLog' = Append(execLog, [call |-> Len(respLog), id |-> toolBlock.id])
           /\ IF Len(results) = Len(response.blocks)
              THEN /\ messages' = messages \o ToolRoundTripMessages(response.blocks, results)
                   /\ attempt' = attempt + 1
                   /\ pc' = "loop"
              ELSE UNCHANGED <<messages, attempt, pc>>
    /\ UNCHANGED <<maxRetries, totalIterations, lastError, response, delay, pending,
                   outcome, result, thrown, sentLog, respLog, sleepLog, ui, probe>>

\* mutant: the promise of sleep() is never resolved
SleepNeverResolves == pc = "sleep" /\ UNCHANGED vars

\* lines 330-336 and 359-363: the backoff sleep resolves, the retry messages
\* are pushed and the next iteration starts
Sleep ==
    /\ pc = "sleep"
    /\ sleepLog' = Append(sleepLog, [attempt |-> attempt, ms |-> delay])
    /\ messages' = messages \o pending
    /\ attempt' = attempt + 1
    /\ pc' = "loop"
    /\ UNCHANGED <<maxRetries, totalIterations, lastError, response, toolResults,
                   delay, pending, outcome, result, thrown, sentLog, respLog, execLog,
                   store, ui, probe>>

\* lines 109-114: the iteration budget is exhausted
IterationLimit ==
    /\ pc = "loop"
    /\ attempt < maxRetries
    /\ IterationLimitExceeded(totalIterations + 1)
    /\ totalIterations' = totalIterations + 1
    /\ thrown' = IterationLimitMessage
    /\ outcome' = "thrown"
    /\ pc' = "done"
    /\ UNCHANGED <<maxRetries, messages, attempt, lastError, response, toolResults,
                   delay, pending, result, sentLog, respLog, sleepLog, execLog,
                   store, ui, probe>>

\* lines 368-392: the for loop ran out of attempts
AllRetriesFailed ==
    /\ pc = "loop"
    /\ ~(attempt < maxRetries)
    /\ thrown' = AllRetriesFailedMessage(maxRetries, lastError)
    /\ outcome' = "thrown"
    /\ pc' = "done"
    /\ UNCHANGED <<maxRetries, messages, attempt, totalIterations, lastError, response,
                   toolResults, delay, pending, result, sentLog, respLog, sleepLog,
                   execLog, store, ui, probe>>

Next ==
    \/ GeneratorError
    \/ ToolUseResponse
    \/ NoTextContent
    \/ TextResponse
    \/ ExecuteTool
    \/ Sleep
    \/ IterationLimit
    \/ AllRetriesFailed

Spec == Init /\ [][Next]_vars

\* every awaited call (generator, tool, sleep) settles, so the loop always
\* takes its next step
FairSpec == Spec /\ WF_vars(Next)


----------------------------------------------------------------------------
(* Functions checked on their own: common definitions *)

\* no processChatMessage call is in progress
TurnIdle ==
    /\ pc = "idle"
    /\ maxRetries = DefaultMaxRetries
    /\ messages = << >>
    /\ attempt = 0
    /\ totalIterations = 0
    /\ lastError = << >>
    /\ response = NoResponse
    /\ toolResults = << >>
    /\ delay = 0
    /\ pending = << >>
    /\ outcome = "running"
    /\ result = NoResult
    /\ thrown = << >>
    /\ sentLog = << >>
    /\ respLog = << >>
    /\ sleepLog = << >>
    /\ execLog = << >>

----------------------------------------------------------------------------
(* validators.ts *)

\* isValidLocation(value)
isValidLocation(value) == value.t = "string" /\ value.s \in Location

\* isValidSeverity(value)
isValidSeverity(value) ==
    value.t = "number" /\ value.whole /\ value.n >= 0 /\ value.n <= 10

\* isValidOnsetDate(value)
isValidOnsetDate(value, env) ==
    IF value.t /= "string" THEN FALSE
    ELSE IF value.date.fmt /= "ymd" THEN FALSE
    ELSE IF DateParse(value, env).nan THEN FALSE
    ELSE IF DateParse(value, env).time > EndOfToday(env) THEN FALSE
    ELSE TRUE

NoData == [location |-> Undefined, onset |-> Undefined, severity |-> Undefined,
           description |-> Undefined]

Failure(error, message) ==
    [success |-> FALSE, error |-> error, message |-> message, data |-> NoData]

\* mutant: the validated onset is coerced to a full ISO timestamp
ValidatedMetadataCoerced(metadata) ==
    [location |-> metadata.location,
     onset |-> IF metadata.onset.t = "string"
               THEN JsValue("string", "YYYY-MM-DDTHH:mm:ss.sssZ", 0, TRUE,
                            [fmt |-> "other", parse |-> metadata.onset.date.parse,
                             day |-> metadata.onset.date.day])
               ELSE metadata.onset,
     severity |-> metadata.severity,
     description |-> IF metadata.description.t = "string"
                     THEN metadata.description ELSE Undefined]

\* lines 103-109: the validated metadata object
ValidatedMetadata(metadata) ==
    [location |-> metadata.location,
     onset |-> metadata.onset,
     severity |-> metadata.severity,
     description |-> IF metadata.description.t = "string"
                     THEN metadata.description ELSE Undefined]

\* parseAndValidate(data), field by field.  data.t is the type of the parsed
\* response and data.metadata its metadata property (t its type, then its
\* four properties); env is the clock isValidOnsetDate reads.
parseAndValidateData(data, env) ==
    IF data.t /= "object"
    THEN Failure("Invalid response format", "Response must be a valid JSON object")
    ELSE IF data.metadata.t \notin {"object", "array"}
    THEN Failure("Missing metadata", "Response must include a \"metadata\" field")
    ELSE LET metadata == data.metadata
         IN  IF metadata.location.t /= "null" /\ ~isValidLocation(metadata.location)
             THEN Failure("Invalid location", "Location must be one of: ..., or null")
             ELSE IF metadata.onset.t /= "null" /\ ~isValidOnsetDate(metadata.onset, env)
             THEN Failure("Invalid onset",
                          "Onset must be a valid ISO date (YYYY-MM-DD) not in the future, or null")
             ELSE IF metadata.severity.t /= "null" /\ ~isValidSeverity(metadata.severity)
             THEN Failure("Invalid severity",
                          "Severity must be an integer between 0 and 10, or null")
             ELSE [success |-> TRUE, error |-> "", message |-> "",
                   data |-> ValidatedMetadata(metadata)]

\* JSON.parse(JSON.stringify(v)).p for a property p holding v: an undefined
\* property is dropped and reads back as undefined
JsonRoundTrip(v) == IF v.t = "undefined" THEN Undefined ELSE v

\* JSON.parse(JSON.stringify({metadata: r}))
Reserialize(r) ==
    [t |-> "object",
     metadata |-> [t |-> "object",
                   location |-> JsonRoundTrip(r.location),
                   onset |-> JsonRoundTrip(r.onset),
                   severity |-> JsonRoundTrip(r.severity),
                   description |-> JsonRoundTrip(r.description)]]


----------------------------------------------------------------------------
(* Vocabulary of the properties *)

Finished == pc = "done"

DefaultSettings == maxRetries = DefaultMaxRetries

JsonTextOf(resp) == StripFences(resp.text)

ParsedOf(resp) == JSONparse(JsonTextOf(resp))

\* the response is text that is not parseable JSON
MalformedJson(resp) == resp.kind = "text" /\ ~ParsedOf(resp).ok

\* the response is parseable JSON that parseAndValidate rejects
SchemaViolation(resp) ==
    /\ resp.kind = "text"
    /\ ParsedOf(resp).ok
    /\ ~parseAndValidate(ParsedOf(resp)).success

FailsValidation(resp) == MalformedJson(resp) \/ SchemaViolation(resp)

ValidResponse(resp) ==
    /\ resp.kind = "text"
    /\ ParsedOf(resp).ok
    /\ parseAndValidate(ParsedOf(resp)).success

\* the first k generator responses of the turn all failed validation
FirstFail(k) ==
    /\ Len(respLog) >= k
    /\ \A i \in 1..k : FailsValidation(respLog[i])

----------------------------------------------------------------------------
(* C1 *)

\* C1: in every execution of processChatMessage, whatever mix of tool
\* requests, invalid responses and generator errors occurs, the generator is
\* invoked at most 5 (MAX_TOTAL_ITERATIONS) times; this holds for every
\* maxRetries explored, the default 3 included.
C1_AtMostFiveInvocations == Len(sentLog) <= MAX_TOTAL_ITERATIONS

\* a finished default-settings turn that saw a tool request, a generator
\* error and an invalid response
C1_Witness ==
    /\ DefaultSettings
    /\ Finished
    /\ \E i, j, k \in 1..Len(respLog) :
         /\ respLog[i].kind = "tool_use"
         /\ respLog[j].kind = "error"
         /\ FailsValidation(respLog[k])

----------------------------------------------------------------------------
(* C2 *)

\* C2 as stated: if all 3 allowed attempts of a turn produce responses that
\* fail validation (unparseable JSON or a schema violation), the call returns
\* a best-effort result built from the last response instead of throwing.
C2_Original ==
    (DefaultSettings /\ Finished /\ FirstFail(DefaultMaxRetries))
      => /\ outcome = "returned"
         /\ result.metadata = ParsedOf(respLog[DefaultMaxRetries]).metadata

\* C2 amended: if all 3 allowed attempts fail validation, the call returns a
\* best-effort result built from the last response when that response parses
\* to a JSON object; when the last response is unparseable JSON or the JSON
\* value null, the call throws "Failed to get valid response after 3
\* attempts" with the last error.
C2_BestEffortOnlyForObjects ==
    (DefaultSettings /\ Finished /\ FirstFail(DefaultMaxRetries))
      => LET last == ParsedOf(respLog[DefaultMaxRetries])
         IN  IF last.ok /\ ~last.isNull
             THEN /\ outcome = "returned"
                  /\ result.metadata = last.metadata
                  /\ thrown = << >>
             ELSE /\ outcome = "thrown"
                  /\ result = NoResult
                  /\ thrown = <<"Failed to get valid response after ", "3",
                                " attempts. Last error: ">> \o lastError
                  /\ lastError /= << >>

\* three failed validations, the last one a schema violation of an object,
\* returned as a best-effort result
C2_Witness ==
    /\ DefaultSettings
    /\ Finished
    /\ FirstFail(DefaultMaxRetries)
    /\ MalformedJson(respLog[1])
    /\ SchemaViolation(respLog[DefaultMaxRetries])
    /\ outcome = "returned"
    /\ result.metadata = "badLocation"

----------------------------------------------------------------------------
(* C3 *)

\* k malformed responses followed by one valid response give a success with
\* the valid response's record after exactly k + 1 generator invocations
SuccessAfter(k) ==
    (DefaultSettings /\ Finished /\ FirstFail(k))
      => /\ Len(respLog) >= k + 1
         /\ ValidResponse(respLog[k + 1])
              => /\ outcome = "returned"
                 /\ result.metadata = ParsedOf(respLog[k + 1]).metadata
                 /\ Len(sentLog) = k + 1

\* C3 as stated: for any k <= 3, if the generator returns k malformed
\* responses followed by one valid response, the call returns the valid
\* response's record as a success, and the number of generator invocations
\* equals the number of responses in that sequence.
C3_Original == \A k \in 0..DefaultMaxRetries : SuccessAfter(k)

\* C3 amended: the same for any k <= 2 (k + 1 <= the 3 allowed attempts).
C3_SuccessWithinAttempts == \A k \in 0..(DefaultMaxRetries - 1) : SuccessAfter(k)

\* two failed validations, then a valid response returned as the result
C3_Witness ==
    /\ DefaultSettings
    /\ Finished
    /\ FirstFail(2)
    /\ Len(respLog) = 3
    /\ ValidResponse(respLog[3])
    /\ outcome = "returned"
    /\ result.metadata = "r2"

----------------------------------------------------------------------------
(* C4 *)

\* C4: every call of processChatMessage eventually returns a result or
\* throws, provided each generator invocation, tool execution and sleep
\* settles (FairSpec): no sequence of tool requests, invalid responses and
\* errors makes the loop run forever.
C4_Terminates == <>(outcome /= "running")

\* a turn that ended only after the iteration budget was used up
C4_Witness ==
    /\ Finished
    /\ outcome = "thrown"
    /\ Len(respLog) = MAX_TOTAL_ITERATIONS
    /\ \E i \in 1..Len(respLog) : respLog[i].kind = "tool_use"
    /\ \E i \in 1..Len(respLog) : FailsValidation(respLog[i])


----------------------------------------------------------------------------
(* C5 *)

\* the list sent at invocation i + 1 is the list sent at invocation i plus
\* exactly the messages extra, in that order
ExtendedBy(i, extra) ==
    /\ Len(sentLog[i + 1]) = Len(sentLog[i]) + Len(extra)
    /\ SubSeq(sentLog[i + 1], 1, Len(sentLog[i])) = sentLog[i]
    /\ SubSeq(sentLog[i + 1], Len(sentLog[i]) + 1, Len(sentLog[i + 1])) = extra

\* the failed output as an assistant message, then the correction synthesized
\* from the validation result as a user message
OutputThenCorrection(resp) ==
    << [role |-> "assistant", tag |-> "raw", text |-> JsonTextOf(resp), blocks |-> << >>],
       [role |-> "user", tag |-> "retry",
        text |-> <<"The previous response had an error: ">>
                   \o generateErrorFeedback(parseAndValidate(ParsedOf(resp)))
                   \o <<"Please correct the response and ensure it follows the exact JSON format">>,
        blocks |-> << >>] >>

\* the parse error alone, as a user message
ParseErrorCorrection ==
    << [role |-> "user", tag |-> "retry",
        text |-> <<"The previous response had an error: ",
                   "Unexpected token S in JSON at position 0",
                   "Please correct the response and ensure it follows the exact JSON format">>,
        blocks |-> << >>] >>

\* C5 as stated: for every response that fails validation (malformed JSON or
\* schema violation) on an attempt that is not the last allowed one, the next
\* generator invocation sees the history extended by exactly two messages:
\* the failed output as an assistant message, then the synthesized
\* correction as a user message.
C5_Original ==
    \A i \in 1..(Len(sentLog) - 1) :
        FailsValidation(respLog[i]) => ExtendedBy(i, OutputThenCorrection(respLog[i]))

\* C5 amended: after a schema violation the next invocation sees exactly two
\* more messages (the failed output, trimmed and with code fences removed, as
\* an assistant message, then the correction as a user message); after
\* malformed JSON it sees exactly one more message, the correction carrying
\* the parse error as a user message, and the failed output is not echoed.
C5_CorrectionAppended ==
    \A i \in 1..(Len(sentLog) - 1) :
        /\ SchemaViolation(respLog[i]) => ExtendedBy(i, OutputThenCorrection(respLog[i]))
        /\ MalformedJson(respLog[i]) => ExtendedBy(i, ParseErrorCorrection)

\* a schema violation and a malformed JSON response, each followed by a
\* further generator invocation
C5_Witness ==
    /\ Len(sentLog) >= 3
    /\ SchemaViolation(respLog[1])
    /\ respLog[1].text /= JsonTextOf(respLog[1])
    /\ MalformedJson(respLog[2])

----------------------------------------------------------------------------
(* C6 *)

\* response i was a failed attempt (anything but a tool round trip or a
\* returned result) that was followed by another generator invocation
FailedThenInvokedAgain(i) ==
    /\ i < Len(sentLog)
    /\ respLog[i].kind /= "tool_use"

\* C6: before the n-th retry of a turn (n = 1, 2, ...) the orchestrator waits
\* min(100 * 2^(n-1), 1000) ms: 100 ms before the first retry, doubling for
\* each further retry, never more than 1000 ms; and the generator is never
\* invoked again after a failed attempt without that wait having elapsed.
\* (The delays are compared at the default maxRetries = 3.)
C6_Original ==
    /\ DefaultSettings =>
         \A n \in 1..Len(sleepLog) : sleepLog[n].ms = Min(100 * 2^(n - 1), 1000)
    /\ \A i \in 1..Len(respLog) :
         FailedThenInvokedAgain(i)
           => \E n \in 1..Len(sleepLog) : sleepLog[n].attempt = i - 1

----------------------------------------------------------------------------
(* C7 *)

\* C7: within one turn the message list is append-only: the list sent at
\* each generator invocation has the list sent at the previous invocation as
\* a strict prefix.
C7_AppendOnly ==
    \A i \in 1..(Len(sentLog) - 1) :
        /\ Len(sentLog[i]) < Len(sentLog[i + 1])
        /\ SubSeq(sentLog[i + 1], 1, Len(sentLog[i])) = sentLog[i]

\* four invocations, after a tool round trip, a generator error and a
\* validation failure
C7_Witness ==
    /\ Len(sentLog) = 4
    /\ respLog[1].kind = "tool_use"
    /\ respLog[2].kind = "error"
    /\ SchemaViolation(respLog[3])

----------------------------------------------------------------------------
(* C8 *)

\* ids of the tools executed for generator response i, in execution order
ExecutedFor(i) ==
    LET mine == SelectSeq(execLog, LAMBDA e : e.call = i)
    IN  [j \in 1..Len(mine) |-> mine[j].id]

IdsOf(blocks) == [j \in 1..Len(blocks) |-> blocks[j].id]

IsPrefix(a, b) == Len(a) <= Len(b) /\ SubSeq(b, 1, Len(a)) = a

\* C8: when one generator response requests several tools, they are executed
\* one at a time in the order returned, and exactly one tool result per
\* request, in that same order and carrying the matching request id, is
\* appended (after the assistant's tool-request message) before the generator
\* is invoked again.
C8_ToolsInOrder ==
    \A i \in 1..Len(respLog) :
        respLog[i].kind = "tool_use" =>
            LET blocks == respLog[i].blocks
            IN  /\ IsPrefix(ExecutedFor(i), IdsOf(blocks))
                /\ i < Len(sentLog) =>
                     /\ ExecutedFor(i) = IdsOf(blocks)
                     /\ Len(sentLog[i + 1]) = Len(sentLog[i]) + 2
                     /\ IsPrefix(sentLog[i], sentLog[i + 1])
                     /\ LET request == sentLog[i + 1][Len(sentLog[i]) + 1]
                            reply == sentLog[i + 1][Len(sentLog[i]) + 2]
                        IN  /\ request.role = "assistant"
                            /\ request.blocks = blocks
                            /\ reply.role = "user"
                            /\ reply.tag = "tool_result"
                            /\ Len(reply.blocks) = Len(blocks)
                            /\ \A j \in 1..Len(blocks) :
                                 reply.blocks[j].id = blocks[j].id

\* a response requesting two tools, both executed in the order returned,
\* followed by another generator invocation
C8_Witness ==
    \E i \in 1..Len(respLog) :
        /\ respLog[i].kind = "tool_use"
        /\ Len(respLog[i].blocks) = 2
        /\ i < Len(sentLog)
        /\ ExecutedFor(i) = <<"toolu_2", "toolu_1">>

----------------------------------------------------------------------------
(* C9 *)

----------------------------------------------------------------------------
(* C10 *)

\* the most recent response of the turn that was a failure
LastFailure ==
    LET failed == { i \in 1..Len(respLog) : respLog[i].kind /= "tool_use" }
    IN  IF failed = {} THEN 0
        ELSE CHOOSE i \in failed : \A j \in failed : j <= i

\* C10: whenever processChatMessage fails a turn, the error it throws carries
\* the human-readable message of the most recent failure of that turn; the
\* reported last error is never empty.
\* (Stated at the default maxRetries = 3, where every throw is the final
\* "Failed to get valid response" error.)
C10_Original ==
    (DefaultSettings /\ outcome = "thrown") =>
        /\ LastFailure /= 0
        /\ lastError /= << >>
        /\ thrown = <<"Failed to get valid response after ", "3",
                      " attempts. Last error: ">> \o lastError

----------------------------------------------------------------------------
(* parseAndValidate on its own *)

\* the clocks the validator is run under: 02:00 and 20:00 UTC of day 10, in
\* the zones UTC-8, UTC and UTC+9, on either kind of engine
Envs ==
    { [now |-> n, tz |-> z, lenient |-> l] :
        n \in {HoursPerDay * 10 + 2, HoursPerDay * 10 + 20},
        z \in {-8, 0, 9},
        l \in BOOLEAN }

LocationInputs == {Null, Undefined, Str("chest"), Str("arm"), Str("stomach"), Num(3)}

OnsetInputs ==
    {Null, Undefined, Str("yesterday"), Num(5), DateStr("never", 0), DateStr("rollover", 9)}
      \cup { DateStr("real", d) : d \in 9..12 }

SeverityInputs ==
    {Null, Undefined, Num(-1), Num(0), Num(7), Num(10), Num(11), Half(6), Str("7")}

DescriptionInputs == {Undefined, Str("dull ache"), Num(1)}

MetadataInputs ==
    { [t |-> "object", location |-> l, onset |-> o, severity |-> v, description |-> d] :
        l \in LocationInputs, o \in OnsetInputs, v \in SeverityInputs,
        d \in DescriptionInputs }
      \cup { [t |-> k, location |-> Undefined, onset |-> Undefined,
              severity |-> Undefined, description |-> Undefined] :
               k \in {"undefined", "null", "string", "array"} }

DataInputs ==
    { [t |-> "object", metadata |-> m] : m \in MetadataInputs }
      \cup { [t |-> k, metadata |-> [t |-> "undefined", location |-> Undefined,
                                     onset |-> Undefined, severity |-> Undefined,
                                     description |-> Undefined]] :
               k \in {"null", "number", "string"} }

NotRun == Failure("not run", "")

ValidatorInit ==
    /\ TurnIdle
    /\ store = EmptyStore
    /\ ui = NoUi
    /\ probe \in { [fn |-> "parseAndValidate", step |-> "input", data |-> d,
                    env |-> e, out |-> NotRun, again |-> NotRun] :
                     d \in DataInputs, e \in Envs }

\* parseAndValidate(data)
Validate ==
    /\ probe.step = "input"
    /\ probe' = [probe EXCEPT !.step = "validated",
                              !.out = parseAndValidateData(probe.data, probe.env)]
    /\ UNCHANGED <<turnVars, store, ui>>

\* parseAndValidate(JSON.parse(JSON.stringify({metadata: r}))) for the record
\* r of a successful validation
Revalidate ==
    /\ probe.step = "validated"
    /\ probe.out.success
    /\ probe' = [probe EXCEPT !.step = "revalidated",
                              !.again = parseAndValidateData(Reserialize(probe.out.data),
                                                             probe.env)]
    /\ UNCHANGED <<turnVars, store, ui>>

ValidatorNext == Validate \/ Revalidate

ValidatorSpec == ValidatorInit /\ [][ValidatorNext]_vars

----------------------------------------------------------------------------
(* C14 *)

\* a calendar date in YYYY-MM-DD form that is not after the local today
ValidNonFutureDate(value, env) ==
    /\ value.t = "string"
    /\ value.date.fmt = "ymd"
    /\ value.date.parse = "real"
    /\ value.date.day <= LocalDay(env)

LocationOk(m) == m.location.t = "null" \/ (m.location.t = "string" /\ m.location.s \in Location)

OnsetOk(m, env) == m.onset.t = "null" \/ ValidNonFutureDate(m.onset, env)

SeverityOk(m) ==
    m.severity.t = "null"
      \/ (m.severity.t = "number" /\ m.severity.whole /\ m.severity.n \in 0..10)

\* the error the claim expects for a response whose metadata is an object
FirstOffendingField(m, env) ==
    IF ~LocationOk(m) THEN "Invalid location"
    ELSE IF ~OnsetOk(m, env) THEN "Invalid onset"
    ELSE IF ~SeverityOk(m) THEN "Invalid severity"
    ELSE ""

\* C14: parseAndValidate succeeds exactly when the input is an object with an
\* object-valued metadata whose location is null or in the vocabulary, whose
\* onset is null or a valid non-future YYYY-MM-DD date and whose severity is
\* null or an integer in [0, 10]; every other input yields a failure result,
\* and the failure names the first offending field in the order location,
\* onset, severity.
C14_Original ==
    (probe.fn = "parseAndValidate" /\ probe.step /= "input") =>
        LET d == probe.data
            m == d.metadata
        IN  /\ probe.out.success
              <=> /\ d.t = "object"
                  /\ m.t = "object"
                  /\ FirstOffendingField(m, probe.env) = ""
            /\ (d.t = "object" /\ m.t = "object" /\ ~probe.out.success)
                 => probe.out.error = FirstOffendingField(m, probe.env)

----------------------------------------------------------------------------
(* C15 *)

----------------------------------------------------------------------------
(* Additional insights: the trigger evaluator *)

CRITICAL_LOCATIONS == {"chest", "abdomen", "head"}

\* Math.ceil(h / 24) for a non-negative number of hours h
CeilDays(h) == (h + HoursPerDay - 1) \div HoursPerDay

\* Math.abs
Abs(x) == IF x < 0 THEN 0 - x ELSE x

\* getDaysSinceOnset(onsetDate); nan is TRUE when the result is NaN
getDaysSinceOnset(onsetDate, env) ==
    LET onset == DateParse(onsetDate, env)
    IN  IF onset.nan THEN [nan |-> TRUE, days |-> 0]
        ELSE [nan |-> FALSE, days |-> CeilDays(Abs(env.now - onset.time))]

\* value >= k for a number k > 0: null counts as 0, undefined and
\* non-numeric strings as NaN
AtLeast(value, k) == value.t = "number" /\ value.n >= k

\* shouldCollectAdditionalInsights(metadata)
shouldCollectAdditionalInsights(metadata, env) ==
    IF AtLeast(metadata.severity, 7) THEN TRUE
    ELSE IF /\ Truthy(metadata.onset)
            /\ ~getDaysSinceOnset(metadata.onset, env).nan
            /\ getDaysSinceOnset(metadata.onset, env).days > 5
    THEN TRUE
    ELSE IF metadata.location.t = "string" /\ metadata.location.s \in CRITICAL_LOCATIONS
    THEN TRUE
    ELSE FALSE

\* reasons.join(' and ')
RECURSIVE JoinAnd(_)
JoinAnd(reasons) ==
    IF reasons = << >> THEN << >>
    ELSE IF Len(reasons) = 1 THEN reasons
    ELSE <<Head(reasons), " and ">> \o JoinAnd(Tail(reasons))

FallbackRationale == <<"To help provide better context for your symptom">>

\* getAdditionalQuestionsRationale(metadata)
getAdditionalQuestionsRationale(metadata, env) ==
    LET r1 == IF AtLeast(metadata.severity, 7) THEN <<"high severity">> ELSE << >>
        r2 == IF Truthy(metadata.onset)
              THEN LET daysSince == getDaysSinceOnset(metadata.onset, env)
                   IN  IF ~daysSince.nan /\ daysSince.days > 5
                       THEN <<"extended duration">> ELSE << >>
              ELSE << >>
        r3 == IF metadata.location.t = "string"
                   /\ metadata.location.s \in CRITICAL_LOCATIONS
              THEN <<"critical location">> ELSE << >>
        reasons == r1 \o r2 \o r3
    IN  IF Len(reasons) = 0 THEN FallbackRationale
        ELSE <<"Because of the ">> \o JoinAnd(reasons)
               \o <<", I'd like to ask a few more detailed questions to better understand your symptom.">>

\* the records the evaluator is given: SymptomMetadata values
TriggerInputs ==
    { [location |-> l, onset |-> o, severity |-> v, description |-> Undefined] :
        l \in {Null, Str("chest"), Str("abdomen"), Str("head"), Str("arm")},
        o \in {Null, Str(""), DateStr("rollover", 4)}
                \cup { DateStr("real", d) : d \in {3, 4, 5, 6, 9, 10, 11, 16, 17} },
        v \in {Null, Num(0), Num(6), Num(7), Num(10)} }

TriggerInit ==
    /\ TurnIdle
    /\ store = EmptyStore
    /\ ui = NoUi
    /\ probe \in { [fn |-> "trigger", step |-> "input", metadata |-> m, env |-> e,
                    fires |-> FALSE, rationale |-> << >>] :
                     m \in TriggerInputs, e \in Envs }

ShouldCollect ==
    /\ probe.step = "input"
    /\ probe' = [probe EXCEPT !.step = "evaluated",
                   !.fires = shouldCollectAdditionalInsights(probe.metadata, probe.env)]
    /\ UNCHANGED <<turnVars, store, ui>>

Rationale ==
    /\ probe.step = "evaluated"
    /\ probe' = [probe EXCEPT !.step = "explained",
                   !.rationale = getAdditionalQuestionsRationale(probe.metadata, probe.env)]
    /\ UNCHANGED <<turnVars, store, ui>>

TriggerNext == ShouldCollect \/ Rationale

TriggerSpec == TriggerInit /\ [][TriggerNext]_vars

----------------------------------------------------------------------------
(* C16 *)

HighSeverity(m) == m.severity.t = "number" /\ m.severity.n >= 7

\* the onset is present and more than 5 days before today
ExtendedDuration(m, env) ==
    /\ m.onset.t = "string"
    /\ m.onset.date.fmt = "ymd"
    /\ m.onset.date.parse = "real"
    /\ LocalDay(env) - m.onset.date.day > 5

CriticalLocation(m) == m.location.t = "string" /\ m.location.s \in {"chest", "abdomen", "head"}

\* C16: shouldCollectAdditionalInsights returns true if and only if
\* severity >= 7, or onset is present and more than 5 days before today, or
\* location is one of chest, abdomen, head; severity 6 alone does not fire,
\* severity 7 does, and a record whose three fields are all null does not.
C16_Original ==
    (probe.fn = "trigger" /\ probe.step /= "input") =>
        (probe.fires <=> \/ HighSeverity(probe.metadata)
                         \/ ExtendedDuration(probe.metadata, probe.env)
                         \/ CriticalLocation(probe.metadata))

----------------------------------------------------------------------------
(* C17 *)

Names(rationale, reason) == \E i \in 1..Len(rationale) : rationale[i] = reason

\* C17: getAdditionalQuestionsRationale names 'high severity', 'extended
\* duration' and 'critical location' for exactly those trigger conditions
\* that hold for the record, and returns the generic fallback sentence if
\* and only if shouldCollectAdditionalInsights returns false for the record.
C17_Original ==
    (probe.fn = "trigger" /\ probe.step = "explained") =>
        /\ Names(probe.rationale, "high severity") <=> HighSeverity(probe.metadata)
        /\ Names(probe.rationale, "extended duration")
             <=> ExtendedDuration(probe.metadata, probe.env)
        /\ Names(probe.rationale, "critical location") <=> CriticalLocation(probe.metadata)
        /\ (probe.rationale = FallbackRationale) <=> ~probe.fires

----------------------------------------------------------------------------
(* executeToolCall on its own *)

MaxToolCalls == 3

\* the stored data the tools run on: nothing, or three entries saved out of
\* onset order, two of them linked to issue i1
StoredSymptoms ==
    << SymptomEntry("s1", "head", DateStr("real", 9), Num(7), HoursPerDay * 9 + 5, "i1"),
       SymptomEntry("s2", "arm", DateStr("real", 3), Num(2), HoursPerDay * 10, ""),
       SymptomEntry("s3", "head", DateStr("real", 10), Num(4), HoursPerDay * 4, "i1") >>

ToolStores == {EmptyStore, [EmptyStore EXCEPT !.symptoms = StoredSymptoms]}

DaysBackInputs ==
    {Undefined, Null, Num(-5), Num(0), Num(1), Num(7), Num(365), Num(366), Str("abc")}

LimitInputs ==
    {Undefined, Null, Num(-1), Num(0), Num(1), Num(2), Half(2), Num(50), Num(51), Str("abc")}

\* recent queries vary days_back and limit one at a time and once together;
\* the other query types vary the argument they use
HistoryInputs ==
    LET sizes == { <<d, Undefined>> : d \in DaysBackInputs }
                   \cup { <<Undefined, l>> : l \in LimitInputs }
                   \cup { <<Num(7), Num(1)>> }
    IN  { HistoryInput(Str("recent"), Undefined, Undefined, z[1], z[2]) : z \in sizes }
          \cup { HistoryInput(Str("by_date_range"), Undefined, Undefined, d, l) :
                   d \in DaysBackInputs, l \in {Undefined, Num(1)} }
          \cup { HistoryInput(Str("by_location"), Str("head"), Undefined, d, Undefined) :
                   d \in {Undefined, Num(1), Str("abc")} }
          \cup { HistoryInput(Str("by_issue"), Undefined, Str("i1"), Undefined, l) :
                   l \in {Num(1), Num(51)} }
          \cup { HistoryInput(q, Undefined, Undefined, Undefined, Undefined) :
                   q \in {Str("by_location"), Str("by_issue"), Str("everything"), Undefined} }
          \cup { NonObjectInput("null"), NonObjectInput("undefined") }

SubjectLists ==
    { << <<"a", "b">> >>,
      << <<" ", "A", "b", " ">> >>,
      << <<"a", "b">>, <<"A", "B">> >>,
      << <<"a", "b">>, <<"b">> >>,
      << <<"b">>, <<"B", " ">> >> }

TodoInputs ==
    { TodoInput(Str("add"), Symptoms("array", l), Undefined) : l \in SubjectLists }
      \cup { TodoInput(Str("add"), y, Undefined) :
               y \in { Symptoms("undefined", << >>), Symptoms("null", << >>),
                       Symptoms("array", << >>), Symptoms("number", << >>) } }
      \cup { TodoInput(o, Symptoms("undefined", << >>), i) :
               o \in {Str("complete"), Str("remove")},
               i \in {Undefined, Str("1"), Str("2"), Str("9")} }
      \cup { TodoInput(o, Symptoms("undefined", << >>), Undefined) :
               o \in {Str("list"), Str("purge"), Undefined} }
      \cup { NonObjectInput("null"), NonObjectInput("undefined") }

UnknownToolNames == {"no_such_tool", ""}

UnknownToolInputs ==
    { TodoInput(Str("add"), Symptoms("array", << <<"b">> >>), Undefined),
      NonObjectInput("null") }

ToolInit ==
    /\ TurnIdle
    /\ ui = NoUi
    /\ store \in ToolStores
    /\ probe = [fn |-> "tool", calls |-> 0, name |-> << >>,
                input |-> NonObjectInput("undefined"), fails |-> FALSE,
                before |-> store, out |-> Reply(<< >>, store)]

\* await executeToolCall(toolName, toolInput); fails says whether
\* localStorage throws during the call
CallTool(toolName, toolInput, fails) ==
    /\ probe.calls < MaxToolCalls
    /\ LET out == executeToolCall(<<toolName>>, toolInput, store,
                                  [now |-> TurnEnv.now, fails |-> fails])
       IN  /\ store' = out.store
           /\ probe' = [probe EXCEPT !.calls = @ + 1, !.name = <<toolName>>,
                                     !.input = toolInput, !.fails = fails,
                                     !.before = store, !.out = out]
    /\ UNCHANGED <<turnVars, ui>>

CallGetSymptomHistory ==
    \E toolInput \in HistoryInputs, fails \in BOOLEAN :
        CallTool("get_symptom_history", toolInput, fails)

CallManageSymptomTodos ==
    \E toolInput \in TodoInputs, fails \in BOOLEAN :
        CallTool("manage_symptom_todos", toolInput, fails)

CallUnknownTool ==
    \E toolName \in UnknownToolNames, toolInput \in UnknownToolInputs, fails \in BOOLEAN :
        CallTool(toolName, toolInput, fails)

ToolNext == CallGetSymptomHistory \/ CallManageSymptomTodos \/ CallUnknownTool

ToolSpec == ToolInit /\ [][ToolNext]_vars

\* the collections of the stored data
Stored(st) == [symptoms |-> st.symptoms, issues |-> st.issues, todos |-> st.todos]

Called == probe.fn = "tool" /\ probe.calls > 0

----------------------------------------------------------------------------
(* C18 *)

\* C18: executeToolCall never throws or rejects: for every tool name and
\* every argument value (missing, null or ill-typed arguments and storage
\* failures included) it resolves to a string, and for a name that is not a
\* known tool the string is the Unknown tool "<name>" message and no stored
\* state is changed.
C18_NeverThrows ==
    Called =>
        /\ ~probe.out.threw
        /\ probe.out.text /= << >>
        /\ probe.name \notin {<<"get_symptom_history">>, <<"manage_symptom_todos">>}
             => /\ probe.out.text = <<"Error: Unknown tool \"">> \o probe.name \o <<"\"">>
                /\ Stored(store) = Stored(probe.before)

\* a todo request without input whose exception became the reply, and an
\* unknown tool answered after the queue had been filled
C18_Witness ==
    /\ Called
    /\ \/ /\ probe.name = <<"manage_symptom_todos">>
          /\ probe.input.t = "null"
          /\ probe.out.text[1] = "Error managing symptom todos: "
       \/ /\ probe.name = <<"no_such_tool">>
          /\ probe.input.t = "object"
          /\ Len(store.todos) = 2
    /\ probe.calls = MaxToolCalls

----------------------------------------------------------------------------
(* C19 *)

\* the number of entries a reply lists
EntriesListed(text) == Cardinality({ i \in 1..Len(text) : text[i] = "Entry " })

Numeric(v) == v.t = "number"

Between(v, lo, hi) == v.t = "number" /\ 2 * lo <= Twice(v) /\ Twice(v) <= 2 * hi

\* C19: in a history query, for every numeric days_back and limit supplied
\* by the generator the effective lookback lies in [1, 365] days and the
\* effective result count in [1, 50] (30 and 10 when absent), and the reply
\* lists at most the effective result count of entries.
C19_Clamped ==
    (/\ Called
     /\ probe.name = <<"get_symptom_history">>
     /\ probe.input.t = "object"
     /\ Numeric(probe.input.days_back) \/ probe.input.days_back.t = "undefined"
     /\ Numeric(probe.input.limit) \/ probe.input.limit.t = "undefined")
      => /\ Between(probe.out.safeDaysBack, 1, 365)
         /\ Between(probe.out.safeLimit, 1, 50)
         /\ probe.input.days_back.t = "undefined" => probe.out.safeDaysBack = Num(30)
         /\ probe.input.limit.t = "undefined" => probe.out.safeLimit = Num(10)
         /\ 2 * EntriesListed(probe.out.text) <= Twice(probe.out.safeLimit)

\* three stored entries, a limit of 2 and a reply that lists two of them;
\* or a limit of 0 raised to 1
C19_Witness ==
    /\ Called
    /\ probe.name = <<"get_symptom_history">>
    /\ probe.input.t = "object"
    /\ probe.input.query_type = Str("recent")
    /\ ~probe.fails
    /\ Len(store.symptoms) = 3
    /\ \/ probe.input.limit = Num(2) /\ EntriesListed(probe.out.text) = 2
       \/ probe.input.limit = Num(0) /\ EntriesListed(probe.out.text) = 1

----------------------------------------------------------------------------
(* C20 *)

\* the last call was an add of a non-empty array of subjects with the
\* storage working
Added ==
    /\ Called
    /\ probe.name = <<"manage_symptom_todos">>
    /\ probe.input.t = "object"
    /\ probe.input.operation = Str("add")
    /\ probe.input.symptoms.t = "array"
    /\ probe.input.symptoms.items /= << >>
    /\ ~probe.fails

\* the pending items that were not pending before the call
NewlyAdded ==
    SelectSeq(store.todos,
              LAMBDA item : \A i \in 1..Len(probe.before.todos) :
                                probe.before.todos[i].id /= item.id)

\* every subject of the call is the subject of an item pending before it
OnlyDuplicates ==
    \A k \in 1..Len(probe.input.symptoms.items) :
        \E i \in 1..Len(probe.before.todos) :
            toLowerCase(Trim(probe.before.todos[i].symptom))
              = toLowerCase(Trim(probe.input.symptoms.items[k]))

\* C20: adding subjects to the todo queue deduplicates by trimmed,
\* case-insensitive text, against the pending items and within the same
\* call: after any sequence of operations no two pending items have the same
\* normalized subject or the same id, add returns only the newly added
\* items, and an add of duplicates only leaves the queue unchanged.
C20_Deduplicated ==
    /\ \A i, j \in 1..Len(store.todos) :
         i /= j => /\ store.todos[i].id /= store.todos[j].id
                   /\ toLowerCase(Trim(store.todos[i].symptom))
                        /= toLowerCase(Trim(store.todos[j].symptom))
    /\ Added =>
         /\ store.todos = probe.before.todos \o NewlyAdded
         /\ IF NewlyAdded = << >>
            THEN probe.out.text[1]
                   = "All symptoms were already in the todo list (duplicates ignored): "
            ELSE probe.out.text
                   = <<"Added ", ToString(Len(NewlyAdded)), " symptom(s) to track:">>
                       \o TodoList(NewlyAdded)
         /\ OnlyDuplicates => store.todos = probe.before.todos

\* "ab" is pending and the call adds "b" and "B ": one item is added and
\* returned; or " Ab " is added when "ab" is pending and nothing changes
C20_Witness ==
    /\ Added
    /\ Len(probe.before.todos) = 1
    /\ probe.before.todos[1].symptom = <<"a", "b">>
    /\ \/ /\ probe.input.symptoms.items = << <<"b">>, <<"B", " ">> >>
          /\ Len(store.todos) = 2
       \/ /\ probe.input.symptoms.items = << <<" ", "A", "b", " ">> >>
          /\ Len(store.todos) = 1

----------------------------------------------------------------------------
(* ChatInterface.tsx: the conversation around processChatMessage *)

MaxTurns == 2

\* one ChatMessage of the visible history
ChatMessage(role, content, type) == [role |-> role, content |-> content, type |-> type]

GreetingMessage ==
    ChatMessage("assistant", <<"Hi, what can I help you with today?">>, "message")

\* no record: extractedMetadata is null
NoRecord == [t |-> "null"]

\* what the JSON bodies of the generator stand for: the object JSON.parse
\* returns for {metadata:r1}, {metadata:r2} and {metadata:badLocation}.
\* r1 is a complete record that ends the conversation, r2 an early record
\* with a follow-up question, badLocation a complete record whose location
\* is outside the vocabulary.
ParsedResponse(metadata) ==
    CASE metadata = "r1" ->
           [metadata |-> [t |-> "object", location |-> Str("chest"),
                          onset |-> DateStr("real", 9), severity |-> Num(7),
                          description |-> Str("tight chest")],
            aiMessage |-> <<"I have logged your chest pain.">>,
            conversationComplete |-> TRUE,
            additionalInsights |-> <<"quality: tight">>,
            issueSelection |-> "none"]
      [] metadata = "r2" ->
           [metadata |-> [t |-> "object", location |-> Str("head"),
                          onset |-> Null, severity |-> Null,
                          description |-> Undefined],
            aiMessage |-> <<"When did the headache start?">>,
            conversationComplete |-> FALSE,
            additionalInsights |-> << >>,
            issueSelection |-> "null"]
      [] OTHER ->
           [metadata |-> [t |-> "object", location |-> Str("stomach"),
                          onset |-> DateStr("real", 9), severity |-> Num(5),
                          description |-> Undefined],
            aiMessage |-> <<"I have logged your stomach pain.">>,
            conversationComplete |-> TRUE,
            additionalInsights |-> << >>,
            issueSelection |-> "none"]

\* the state of a mounted component: the state cells, the values the
\* running handleSubmit closed over (closure), whether the timer of the
\* todo offer is pending, and the history of the conversation: turns
\* submitted, how the last one ended, and the state at the last submit
MountedUi ==
    [mounted |-> TRUE,
     messages |-> <<GreetingMessage>>,
     loading |-> FALSE,
     error |-> << >>,
     extractedMetadata |-> NoRecord,
     additionalInsights |-> << >>,
     conversationComplete |-> FALSE,
     issueSelection |-> "null",
     processingTodos |-> FALSE,
     currentTodoId |-> "",
     closure |-> [messages |-> << >>, newMessages |-> << >>],
     offerTimer |-> FALSE,
     turns |-> 0,
     last |-> "none",
     atSubmit |-> [messages |-> << >>, extractedMetadata |-> NoRecord,
                   additionalInsights |-> << >>, conversationComplete |-> FALSE,
                   issueSelection |-> "null", todos |-> << >>]]

ChatInit ==
    /\ TurnIdle
    /\ store = [EmptyStore EXCEPT !.symptoms = StoredSymptoms]
    /\ ui = NoUi
    /\ probe = NoProbe

\* the component mounts and the greeting is shown (lines 507-517)
Mount ==
    /\ ~ui.mounted
    /\ ui' = MountedUi
    /\ UNCHANGED <<turnVars, store, probe>>

\* newMessages.slice(0, -1).filter(user or assistant).slice(-10)
ConversationHistory(newMessages) ==
    LET earlier == SubSeq(newMessages, 1, Len(newMessages) - 1)
        spoken == SelectSeq(earlier, LAMBDA m : m.role \in {"user", "assistant"})
        last10 == SubSeq(spoken, IF Len(spoken) > 10 THEN Len(spoken) - 9 ELSE 1,
                         Len(spoken))
    IN  [i \in 1..Len(last10) |->
           Msg(last10[i].role, "history", last10[i].content, << >>)]

\* the save effect is due: if (!conversationComplete || !extractedMetadata) return
SaveDue == ui.mounted /\ ui.conversationComplete /\ ui.extractedMetadata.t /= "null"

\* handleSubmit up to the await: the utterance is shown, loading is set and
\* processChatMessage(conversationHistory, userMessage, issues, 3, ...) starts
HandleSubmit ==
    /\ ui.mounted
    /\ ~ui.loading
    /\ ~SaveDue
    /\ ui.turns < MaxTurns
    /\ pc = "idle"
    /\ LET newMessages == Append(ui.messages,
                                 ChatMessage("user", UserMessage.text, "message"))
           isMultiSymptomMode == ui.processingTodos /\ ui.currentTodoId /= ""
       IN  /\ ui' = [ui EXCEPT
                       !.messages = newMessages,
                       !.loading = TRUE,
                       !.error = << >>,
                       !.closure = [messages |-> ui.messages, newMessages |-> newMessages],
                       !.turns = @ + 1,
                       !.last = "submitted",
                       !.atSubmit = [messages |-> ui.messages,
                                     extractedMetadata |-> ui.extractedMetadata,
                                     additionalInsights |-> ui.additionalInsights,
                                     conversationComplete |-> ui.conversationComplete,
                                     issueSelection |-> ui.issueSelection,
                                     todos |-> store.todos]]
           /\ messages' = BuildMessages(ConversationHistory(newMessages), isMultiSymptomMode)
    /\ pc' = "loop"
    /\ maxRetries' = DefaultMaxRetries
    /\ attempt' = 0
    /\ totalIterations' = 0
    /\ lastError' = << >>
    /\ response' = NoResponse
    /\ toolResults' = << >>
    /\ delay' = 0
    /\ pending' = << >>
    /\ outcome' = "running"
    /\ result' = NoResult
    /\ thrown' = << >>
    /\ sentLog' = << >>
    /\ respLog' = << >>
    /\ sleepLog' = << >>
    /\ execLog' = << >>
    /\ UNCHANGED <<store, probe>>

\* the call has settled and its result or error has been consumed
TurnOver ==
    /\ pc' = "idle"
    /\ maxRetries' = DefaultMaxRetries
    /\ messages' = << >>
    /\ attempt' = 0
    /\ totalIterations' = 0
    /\ lastError' = << >>
    /\ response' = NoResponse
    /\ toolResults' = << >>
    /\ delay' = 0
    /\ pending' = << >>
    /\ outcome' = "running"
    /\ result' = NoResult
    /\ thrown' = << >>
    /\ sentLog' = << >>
    /\ respLog' = << >>
    /\ sleepLog' = << >>
    /\ execLog' = << >>

\* handleSubmit after the await, lines 584-603 and the finally clause
SubmitResolved ==
    /\ ui.mounted
    /\ ui.loading
    /\ outcome = "returned"
    /\ LET extractedData == ParsedResponse(result.metadata)
       IN  ui' = [ui EXCEPT
                    !.extractedMetadata = extractedData.metadata,
                    !.additionalInsights = extractedData.additionalInsights,
                    !.conversationComplete = extractedData.conversationComplete,
                    !.issueSelection = IF extractedData.issueSelection /= "null"
                                       THEN extractedData.issueSelection ELSE @,
                    !.messages = IF extractedData.aiMessage /= << >>
                                 THEN Append(ui.closure.newMessages,
                                             ChatMessage("assistant", extractedData.aiMessage,
                                                         "message"))
                                 ELSE @,
                    !.loading = FALSE,
                    !.last = "resolved"]
    /\ TurnOver
    /\ UNCHANGED <<store, probe>>

\* mutant: the catch clause keeps the list that holds the utterance
RestoredMessagesKeepUtterance(closure) == closure.newMessages

\* setMessages(messages) in the catch clause: the list handleSubmit closed over
RestoredMessages(closure) == closure.messages

\* handleSubmit's catch clause (lines 604-618) and the finally clause
SubmitRejected ==
    /\ ui.mounted
    /\ ui.loading
    /\ outcome = "thrown"
    /\ ui' = [ui EXCEPT
                !.error = IF ui.currentTodoId /= ""
                          THEN thrown \o <<" - The symptom todo remains in the queue. You can try again or ask me to remove it.">>
                          ELSE thrown,
                !.messages = RestoredMessages(ui.closure),
                !.loading = FALSE,
                !.last = "rejected"]
    /\ TurnOver
    /\ UNCHANGED <<store, probe>>

\* saveSymptom(entry)
saveSymptom(entry, st, fails) ==
    LET data == getData(st, fails)
        exists == \E i \in 1..Len(data.symptoms) : data.symptoms[i].id = entry.id
        symptoms == IF exists
                    THEN [i \in 1..Len(data.symptoms) |->
                            IF data.symptoms[i].id = entry.id THEN entry
                            ELSE data.symptoms[i]]
                    ELSE Append(data.symptoms, entry)
    IN  IF fails THEN st ELSE [st EXCEPT !.symptoms = symptoms, !.issues = data.issues]

\* the save effect (lines 703-852) for a selection that names no issue: the
\* record is committed as a new symptom entry, the todo this conversation
\* was begun for is completed, the card is shown, the timer of the todo
\* offer is started and the record is cleared
SaveSymptomEntry ==
    /\ SaveDue
    /\ ~ui.loading
    /\ pc = "idle"
    /\ LET symptomId == ToString(Len(store.symptoms) + 1)
           symptomEntry ==
               SymptomEntry(symptomId, ui.extractedMetadata.location.s,
                            ui.extractedMetadata.onset, ui.extractedMetadata.severity,
                            TurnEnv.now, "")
           saved == saveSymptom(symptomEntry, store, TurnEnv.fails)
       IN  /\ store' = IF ui.currentTodoId /= ""
                       THEN completeSymptomTodo(ui.currentTodoId, saved, TurnEnv.fails).store
                       ELSE saved
           /\ ui' = [ui EXCEPT
                       !.messages = Append(@, ChatMessage("system", <<symptomId>>,
                                                          "symptom-card")),
                       !.currentTodoId = "",
                       !.offerTimer = TRUE,
                       !.extractedMetadata = NoRecord,
                       !.additionalInsights = << >>,
                       !.conversationComplete = FALSE,
                       !.issueSelection = "null",
                       !.last = "saved"]
    /\ UNCHANGED <<turnVars, probe>>

\* the setTimeout callback of the save effect (lines 817-834): the first
\* pending todo is offered; processingTodos is set and reset in the callback
OfferTodo ==
    /\ ui.mounted
    /\ ui.offerTimer
    /\ LET todos == getSymptomTodos(store, TurnEnv.fails)
       IN  ui' = IF Len(todos) > 0 /\ ~ui.processingTodos
                 THEN [ui EXCEPT
                         !.offerTimer = FALSE,
                         !.currentTodoId = todos[1].id,
                         !.processingTodos = FALSE,
                         !.messages = Append(@, ChatMessage("assistant",
                                        <<"You also mentioned ">> \o todos[1].symptom
                                          \o <<". Would you like to log that now?">>,
                                        "message"))]
                 ELSE [ui EXCEPT !.offerTimer = FALSE]
    /\ UNCHANGED <<turnVars, store, probe>>

ChatNext ==
    \/ Mount
    \/ HandleSubmit
    \/ GeneratorError
    \/ ToolUseResponse
    \/ NoTextContent
    \/ TextResponse
    \/ ExecuteTool
    \/ Sleep
    \/ AllRetriesFailed
    \/ SubmitResolved
    \/ SubmitRejected
    \/ SaveSymptomEntry
    \/ OfferTodo

ChatSpec == ChatInit /\ [][ChatNext]_vars

----------------------------------------------------------------------------
(* C11 *)

\* the step in which handleSubmit handles the error processChatMessage threw
RejectionStep == ui.mounted /\ ui.loading /\ outcome = "thrown" /\ ~ui'.loading

\* C11: when processChatMessage throws, the visible history is restored to
\* exactly the messages that were there before the utterance was submitted
\* (the utterance is removed and no assistant message is added), and the
\* extracted record, insights, issue selection and completion flag are as
\* they were at the submit.
C11_RolledBack ==
    [][RejectionStep =>
         /\ ui'.messages = ui.atSubmit.messages
         /\ ui'.extractedMetadata = ui.atSubmit.extractedMetadata
         /\ ui'.additionalInsights = ui.atSubmit.additionalInsights
         /\ ui'.issueSelection = ui.atSubmit.issueSelection
         /\ ui'.conversationComplete = ui.atSubmit.conversationComplete]_vars

\* the second turn of a conversation that already holds a record and an
\* exchange has failed
C11_Witness ==
    /\ ui.mounted
    /\ ui.last = "rejected"
    /\ ui.turns = 2
    /\ ui.atSubmit.extractedMetadata.t = "object"
    /\ Len(ui.atSubmit.messages) = 3
    /\ ui.messages = ui.atSubmit.messages
    /\ ui.error /= << >>

----------------------------------------------------------------------------
(* C12 *)

\* the step commits a completed record
CommitStep == SaveDue /\ ~ui.loading /\ pc = "idle" /\ ui'.last = "saved"

\* C12: processChatMessage never writes the stored symptom or issue
\* collections: whether the turn returns or throws, and whatever tools the
\* generator calls, both collections are identical before and after the
\* turn; they change only in the commit step of a completed record.
C12_WrittenOnlyAtCommit ==
    [][/\ (store'.symptoms /= store.symptoms \/ store'.issues /= store.issues)
            => CommitStep
       /\ (ui.mounted /\ ui.loading)
            => (store'.symptoms = store.symptoms /\ store'.issues = store.issues)]_vars

\* a turn that ran both tools on the three stored entries and then failed,
\* with the todo the tool added still queued
C12_Witness ==
    /\ ui.mounted
    /\ ui.last = "rejected"
    /\ Len(store.todos) = 1
    /\ store.symptoms = StoredSymptoms

----------------------------------------------------------------------------
(* C13 *)

\* each of location, onset and severity of a record is null or valid
RecordValid(r) ==
    /\ LocationOk(r)
    /\ OnsetOk(r, TurnEnv)
    /\ SeverityOk(r)

\* C13: the extracted record held by the conversation is replaced only by
\* the metadata of a response that passed the validator: at every point the
\* current record is either absent or has each of location, onset and
\* severity null or valid.
C13_Original ==
    ui.mounted => (ui.extractedMetadata.t = "null" \/ RecordValid(ui.extractedMetadata))

----------------------------------------------------------------------------
(* isDraftExpired on its own *)

\* the instants drafts are stamped at, in milliseconds
DraftTimestamps == { 100000000 * k : k \in 0..9 }

\* the ages a draft is looked at: just saved, a second, around 24 hours to
\* the millisecond and the second, two days, and a clock that was set back
DraftAges ==
    { -1000, 0, 1000,
      twentyFourHours - 1000, twentyFourHours - 1, twentyFourHours,
      twentyFourHours + 1, twentyFourHours + 1000, 2 * twentyFourHours }

ExpiryInit ==
    /\ TurnIdle
    /\ store = EmptyStore
    /\ ui = NoUi
    /\ probe \in { [fn |-> "isDraftExpired", step |-> "input",
                    draft |-> [t |-> "object", timestamp |-> ts],
                    now |-> ts + age, out |-> FALSE] :
                     ts \in DraftTimestamps, age \in DraftAges }

\* isDraftExpired(draft) at the instant now
CheckExpiry ==
    /\ probe.step = "input"
    /\ probe' = [probe EXCEPT !.step = "checked",
                              !.out = isDraftExpired(probe.draft, probe.now)]
    /\ UNCHANGED <<turnVars, store, ui>>

ExpiryNext == CheckExpiry

ExpirySpec == ExpiryInit /\ [][ExpiryNext]_vars

----------------------------------------------------------------------------
(* C22 *)

\* the age of the draft of the probe, in milliseconds
DraftAge == probe.now - probe.draft.timestamp

\* C22: isDraftExpired(d) is true if and only if now - d.timestamp is
\* strictly greater than 24 hours: a snapshot saved at time T is resumable
\* at T+24h-1s and at exactly T+24h, and is treated as expired at T+24h+1s.
C22_ExpiresAfter24h ==
    (probe.fn = "isDraftExpired" /\ probe.step = "checked") =>
        /\ probe.out <=> DraftAge > 86400000
        /\ DraftAge = 86400000 - 1000 => ~probe.out
        /\ DraftAge = 86400000 => ~probe.out
        /\ DraftAge = 86400000 + 1000 => probe.out

\* a draft that is exactly 24 hours old has been found resumable
C22_Witness ==
    /\ probe.fn = "isDraftExpired"
    /\ probe.step = "checked"
    /\ DraftAge = 86400000
    /\ ~probe.out

----------------------------------------------------------------------------
(* The issue functions of localStorage.ts on their own *)

MaxIssueCalls == 2

\* the stored issues to begin with: an active issue with the entries s1 and
\* s3, and an issue that was resolved on day 8
StoredIssues ==
    << Issue("i1", <<"a", "b">>, "active", DateStr("real", 5), Undefined, <<"s1", "s3">>),
       Issue("i2", <<"b">>, "resolved", DateStr("real", 3), DateStr("real", 8), << >>) >>

\* the end dates given: none, before, on and after day 9, and no date at all
EndDateInputs ==
    {Undefined, DateStr("real", 4), DateStr("real", 9), DateStr("real", 10),
     DateStr("never", 0)}

\* the issues saveIssue is given: i1 is stored already, i3 is new
IssueInputs ==
    { Issue(id, <<"a">>, IF e = Undefined THEN "active" ELSE "resolved",
            DateStr("real", 9), e, << >>) :
        id \in {"i1", "i3"}, e \in EndDateInputs }

\* the updates updateIssue is given
UpdateInputs ==
    { b @@ e :
        b \in {<< >>, [startDate |-> DateStr("real", 9)]},
        e \in {<< >>} \cup { [endDate |-> d] :
                  d \in {Undefined, DateStr("real", 4), DateStr("real", 10)} } }

\* the ids given: of the two stored issues and of none
IssueIdInputs == {"i1", "i2", "i9"}

IssueInit ==
    /\ TurnIdle
    /\ store = [EmptyStore EXCEPT !.symptoms = StoredSymptoms, !.issues = StoredIssues]
    /\ ui = NoUi
    /\ probe = [fn |-> "issue", calls |-> 0, op |-> "none", id |-> "", arg |-> Absent,
                fails |-> FALSE, threw |-> FALSE, before |-> EmptyStore]

\* one call of an issue function: r is what it came to
CallIssue(op, id, arg, fails, r) ==
    /\ probe.fn = "issue"
    /\ probe.calls < MaxIssueCalls
    /\ probe' = [probe EXCEPT !.calls = @ + 1, !.op = op, !.id = id, !.arg = arg,
                              !.fails = fails, !.threw = r.threw, !.before = store]
    /\ store' = r.store
    /\ UNCHANGED <<turnVars, ui>>

\* the clock and the storage of a call
IssueEnv(fails) == [TurnEnv EXCEPT !.fails = fails]

CallSaveIssue ==
    \E issue \in IssueInputs, fails \in BOOLEAN :
        CallIssue("saveIssue", issue.id, issue, fails,
                  saveIssue(issue, store, IssueEnv(fails)))

CallUpdateIssue ==
    \E id \in IssueIdInputs, updates \in UpdateInputs, fails \in BOOLEAN :
        CallIssue("updateIssue", id, updates, fails,
                  updateIssue(id, updates, store, IssueEnv(fails)))

CallResolveIssue ==
    \E id \in IssueIdInputs, endDate \in EndDateInputs \ {Undefined}, fails \in BOOLEAN :
        CallIssue("resolveIssue", id, endDate, fails,
                  resolveIssue(id, endDate, store, IssueEnv(fails)))

CallDeleteIssue ==
    \E id \in IssueIdInputs, fails \in BOOLEAN :
        CallIssue("deleteIssue", id, Absent, fails,
                  deleteIssue(id, store, IssueEnv(fails)))

IssueNext == CallSaveIssue \/ CallUpdateIssue \/ CallResolveIssue \/ CallDeleteIssue

IssueSpec == IssueInit /\ [][IssueNext]_vars

----------------------------------------------------------------------------
(* C29 *)

\* the last call was deleteIssue with the storage working
Deleted ==
    /\ probe.fn = "issue"
    /\ probe.op = "deleteIssue"
    /\ ~probe.fails

\* C29: deleteIssue(id) unlinks and never deletes member records:
\* afterwards the stored symptoms are the same entries as before, no symptom
\* references id, every other field of every symptom is unchanged, and every
\* other issue is unchanged.
C29_Unlinks ==
    Deleted =>
        /\ Len(store.symptoms) = Len(probe.before.symptoms)
        /\ \A k \in 1..Len(store.symptoms) :
             /\ store.symptoms[k].issueId /= probe.id
             /\ store.symptoms[k]
                  = [probe.before.symptoms[k] EXCEPT
                       !.issueId = IF @ = probe.id THEN "" ELSE @]
        /\ store.issues = SelectSeq(probe.before.issues, LAMBDA i : i.id /= probe.id)
        /\ ~probe.threw

\* i1 was deleted while s1 and s3 were linked to it: the three entries are
\* still stored, none of them linked, and i2 is still stored
C29_Witness ==
    /\ Deleted
    /\ probe.id = "i1"
    /\ Len(SelectSeq(probe.before.symptoms, LAMBDA e : e.issueId = "i1")) = 2
    /\ Len(store.symptoms) = 3
    /\ \E k \in 1..Len(store.issues) : store.issues[k].id = "i2"

----------------------------------------------------------------------------
(* C30 *)

\* the issue has no end date, or one that is a date on or after its start
DateRangeOk(issue) ==
    \/ issue.endDate.t = "undefined"
    \/ /\ issue.startDate.date.parse = "real"
       /\ issue.endDate.date.parse = "real"
       /\ issue.endDate.date.day >= issue.startDate.date.day

\* the last call was saveIssue, updateIssue or resolveIssue
Written ==
    /\ probe.fn = "issue"
    /\ probe.op \in {"saveIssue", "updateIssue", "resolveIssue"}

\* the stored issue the last call addressed, as it was before the call
Addressed ==
    probe.before.issues[CHOOSE k \in 1..Len(probe.before.issues) :
                          probe.before.issues[k].id = probe.id]

\* the last call asked for an issue whose end date is before its start
AskedForBadRange ==
    CASE probe.op = "saveIssue" -> ~DateRangeOk(probe.arg)
      [] probe.op = "updateIssue" ->
           /\ \E k \in 1..Len(probe.before.issues) : probe.before.issues[k].id = probe.id
           /\ ~DateRangeOk([Addressed EXCEPT
                              !.startDate = IF "startDate" \in DOMAIN probe.arg
                                            THEN probe.arg.startDate ELSE @,
                              !.endDate = IF "endDate" \in DOMAIN probe.arg
                                          THEN probe.arg.endDate ELSE @])
      [] probe.op = "resolveIssue" ->
           /\ \E k \in 1..Len(probe.before.issues) : probe.before.issues[k].id = probe.id
           /\ ~DateRangeOk([Addressed EXCEPT !.endDate = probe.arg])
      [] OTHER -> FALSE

\* C30: after any sequence of saveIssue, updateIssue and resolveIssue calls,
\* every stored issue has no endDate or an endDate >= its startDate; a call
\* that would violate this throws and leaves the stored data unchanged.
C30_DateRangeKept ==
    /\ \A k \in 1..Len(store.issues) : DateRangeOk(store.issues[k])
    /\ Written =>
         /\ AskedForBadRange => probe.threw
         /\ probe.threw => store = probe.before

\* i1, which began on day 5, was to be resolved on day 4: the call threw and
\* i1 is still active
C30_Witness ==
    /\ Written
    /\ probe.op = "resolveIssue"
    /\ probe.id = "i1"
    /\ probe.arg = DateStr("real", 4)
    /\ ~probe.fails
    /\ probe.threw
    /\ \E k \in 1..Len(store.issues) :
         store.issues[k].id = "i1" /\ store.issues[k].status = "active"

----------------------------------------------------------------------------
(* ChatInterface.tsx: drafts, issue selections and the todo offer.  The    *)
(* awaited processChatMessage is settled by the environment: it resolves   *)
(* to one of SessionResponses or throws.                                   *)

MaxSessionTurns == 2

\* new Date().getTime() during the session, in milliseconds
SessionNow == TurnEnv.now * MsPerHour

\* issueSelection and suggestedIssue are null
NoSelection == [t |-> "null"]

NoSuggestion == [t |-> "null"]

\* an IssueSelection; a property that is absent or the empty string is << >>
\* (a text) or undefined (the start date)
Selection(type, existingIssueId, newIssueName, newIssueStartDate) ==
    [t |-> "object", type |-> type, existingIssueId |-> existingIssueId,
     newIssueName |-> newIssueName, newIssueStartDate |-> newIssueStartDate]

\* a SuggestedIssue
Suggestion(existingIssueId) ==
    [t |-> "object", isRelated |-> TRUE, existingIssueId |-> existingIssueId]

\* the text of an issue id
IdText(id) == <<id>>

\* the stored issues of a session: the active issues A (id b) and B (named
\* B), and a resolved issue named r
IssueA == Issue("b", <<"A">>, "active", DateStr("real", 5), Undefined, << >>)

IssueB == Issue("i1", <<"B">>, "active", DateStr("real", 3), Undefined, <<"s1", "s3">>)

IssueR == Issue("i3", <<"r">>, "resolved", DateStr("real", 3), DateStr("real", 8), << >>)

SessionIssues == { <<IssueA, IssueB, IssueR>>, <<IssueB, IssueA, IssueR>> }

\* the todo queue of a session: empty, or one item left by an earlier one
SessionTodos == { << >>, << TodoItem(1, <<"k">>) >> }

\* a ConversationDraft as JSON.parse(JSON.stringify(draft)) gives it back,
\* timestamp in milliseconds
Draft(chat, metadata, insights, suggested, selection, complete, timestamp) ==
    [t |-> "object",
     messages |-> chat,
     extractedMetadata |-> IF metadata.t = "object" THEN Reserialize(metadata).metadata
                           ELSE NoRecord,
     additionalInsights |-> insights,
     queuedSymptoms |-> << >>,
     suggestedIssue |-> suggested,
     issueSelection |-> selection,
     conversationComplete |-> complete,
     timestamp |-> timestamp]

\* the draft an earlier session left behind
OldMessages ==
    << GreetingMessage,
       ChatMessage("user", <<"my knee hurts">>, "message"),
       ChatMessage("assistant", <<"When did the knee pain start?">>, "message") >>

OldDraft(age) ==
    Draft(OldMessages,
          [ParsedResponse("r2").metadata EXCEPT !.location = Str("knee")],
          <<"old insight">>, Suggestion(<<"i1">>),
          Selection("existing", <<"i1">>, << >>, Undefined),
          FALSE, SessionNow - age)

\* the ages of the draft found at the start
StoredDraftAges == {twentyFourHours - 1000, twentyFourHours, twentyFourHours + 1000}

\* the stored data at the start of a session
SessionStores ==
    { [EmptyStore EXCEPT !.symptoms = StoredSymptoms, !.issues = issues,
                         !.todos = todos, !.todoIds = Len(todos)] :
        issues \in SessionIssues, todos \in SessionTodos }
    \cup
    { [EmptyStore EXCEPT !.symptoms = StoredSymptoms,
                         !.issues = <<IssueA, IssueB, IssueR>>,
                         !.draft = OldDraft(age)] :
        age \in StoredDraftAges }

\* what processChatMessage resolves to: result.extractedData and
\* result.additionalInsights
SessionResponse(complete, suggestedIssue, issueSelection) ==
    [metadata |-> IF complete THEN ParsedResponse("r1").metadata
                  ELSE ParsedResponse("r2").metadata,
     aiMessage |-> IF complete THEN <<"I have logged your chest pain.">>
                   ELSE <<"When did the headache start?">>,
     conversationComplete |-> complete,
     additionalInsights |-> IF complete THEN <<"quality: tight">> ELSE << >>,
     suggestedIssue |-> suggestedIssue,
     issueSelection |-> issueSelection]

\* the selections of the responses: none made, no issue, the reference b
\* (the id of A and the name of B), the name of the resolved issue, an
\* empty reference, a new issue, and a new issue without its start date
SessionSelections ==
    { NoSelection,
      Selection("none", << >>, << >>, Undefined),
      Selection("existing", <<"b">>, << >>, Undefined),
      Selection("existing", <<"r">>, << >>, Undefined),
      Selection("existing", << >>, << >>, Undefined),
      Selection("new", << >>, <<"N">>, DateStr("real", 9)),
      Selection("new", << >>, <<"N">>, Undefined) }

SessionResponses ==
    { SessionResponse(TRUE, NoSuggestion, s) : s \in SessionSelections }
    \cup { SessionResponse(FALSE, NoSuggestion, NoSelection),
           SessionResponse(FALSE, Suggestion(<<"b">>),
                           Selection("existing", <<"b">>, << >>, Undefined)) }

\* what the user says: yes to the offer that stands, or anything else
AcceptMessage == <<"yes">>

\* the state cells of the mounted component after the mount effects (lines
\* 488-517), the values the running handleSubmit closed over, whether the
\* save effect is due and whether the timer of the todo offer is pending
SessionUi(issues, draft) ==
    [mounted |-> TRUE,
     messages |-> <<GreetingMessage>>,
     loading |-> FALSE,
     error |-> << >>,
     extractedMetadata |-> NoRecord,
     additionalInsights |-> << >>,
     conversationComplete |-> FALSE,
     showResumeDialog |-> draft /= NoDraft,
     pendingDraft |-> draft,
     issues |-> issues,
     issueSelection |-> NoSelection,
     suggestedIssue |-> NoSuggestion,
     processingTodos |-> FALSE,
     currentTodoId |-> "",
     closure |-> [messages |-> << >>, newMessages |-> << >>, currentTodoId |-> ""],
     effectDue |-> FALSE,
     offerTimer |-> FALSE]

\* the history of a session: the draft stored at the start, the turns
\* submitted, the last step, whether the next utterance begins a
\* conversation, the todo the conversation was begun for, what the last run
\* of the save effect did, the processChatMessage calls awaited, whether a
\* submit has returned early, and the history that was cleared while a call
\* was awaited
NoCommit == [symptomId |-> "", issueId |-> "", selection |-> NoSelection, todo |-> ""]

SessionProbe(draft) ==
    [fn |-> "session", startDraft |-> draft, turns |-> 0, last |-> "none",
     fresh |-> TRUE, begunFor |-> "", commit |-> NoCommit,
     inFlight |-> 0, ignored |-> FALSE, discarded |-> << >>]

SessionInit ==
    /\ TurnIdle
    /\ store \in SessionStores
    /\ ui = NoUi
    /\ probe = SessionProbe(store.draft)

\* the autosave effect (lines 524-547) after a render in which one of its
\* dependencies changed
Autosaved(u, st) ==
    IF Len(u.messages) > 0 /\ ~u.conversationComplete
    THEN saveDraft(Draft(u.messages, u.extractedMetadata, u.additionalInsights,
                         u.suggestedIssue, u.issueSelection, u.conversationComplete,
                         SessionNow),
                   st, TurnEnv.fails)
    ELSE st

\* the component mounts: the active issues are loaded, a stored draft is
\* kept for the resume dialog or cleared when it has expired, the greeting
\* is shown, and the autosave effect runs on the greeting
SessionMount ==
    /\ probe.fn = "session"
    /\ ~ui.mounted
    /\ LET draft == getDraft(store, TurnEnv.fails)
           expired == draft /= NoDraft /\ isDraftExpired(draft, SessionNow)
           checked == IF expired THEN clearDraft(store, TurnEnv.fails) ELSE store
           mounted == SessionUi(getIssues("active", store, TurnEnv.fails),
                                IF expired THEN NoDraft ELSE draft)
       IN  /\ ui' = mounted
           /\ store' = Autosaved(mounted, checked)
    /\ probe' = [probe EXCEPT !.last = "mounted"]
    /\ UNCHANGED turnVars

\* handleResumeDraft (lines 645-659)
SessionResume ==
    /\ probe.fn = "session"
    /\ ui.mounted
    /\ ui.showResumeDialog
    /\ ui.pendingDraft /= NoDraft
    /\ LET resumed == [ui EXCEPT
                         !.messages = ui.pendingDraft.messages,
                         !.extractedMetadata = ui.pendingDraft.extractedMetadata,
                         !.additionalInsights = ui.pendingDraft.additionalInsights,
                         !.suggestedIssue = ui.pendingDraft.suggestedIssue,
                         !.issueSelection = ui.pendingDraft.issueSelection,
                         !.conversationComplete = ui.pendingDraft.conversationComplete,
                         !.effectDue = ui.pendingDraft.conversationComplete
                                         /\ ui.pendingDraft.extractedMetadata.t /= "null",
                         !.showResumeDialog = FALSE,
                         !.pendingDraft = NoDraft]
       IN  /\ ui' = resumed
           /\ store' = Autosaved(resumed, store)
    /\ probe' = [probe EXCEPT !.last = "resumed", !.fresh = FALSE, !.begunFor = ""]
    /\ UNCHANGED turnVars

\* handleStartFresh (lines 661-666)
SessionStartFresh ==
    /\ probe.fn = "session"
    /\ ui.mounted
    /\ ui.showResumeDialog
    /\ ui' = [ui EXCEPT !.showResumeDialog = FALSE, !.pendingDraft = NoDraft]
    /\ store' = clearDraft(store, TurnEnv.fails)
    /\ probe' = [probe EXCEPT !.last = "fresh"]
    /\ UNCHANGED turnVars

\* the dialog is closed without a choice: onOpenChange(false), line 980
SessionDismiss ==
    /\ probe.fn = "session"
    /\ ui.mounted
    /\ ui.showResumeDialog
    /\ ui' = [ui EXCEPT !.showResumeDialog = FALSE]
    /\ probe' = [probe EXCEPT !.last = "dismissed"]
    /\ UNCHANGED <<turnVars, store>>

\* mutant: handleSubmit returns early on a blank input only
SubmitReturnsEarlyOnBlank(input, loading) == Trim(input) = << >>

\* if (!input.trim() || loading) return;  (line 551)
SubmitReturnsEarly(input, loading) == Trim(input) = << >> \/ loading

\* handleSubmit while a turn is in progress: the early return of line 551
SessionSubmitIgnored ==
    /\ probe.fn = "session"
    /\ ui.mounted
    /\ ui.loading
    /\ SubmitReturnsEarly(UserMessage.text, ui.loading)
    /\ probe' = [probe EXCEPT !.ignored = TRUE]
    /\ UNCHANGED <<turnVars, store, ui>>

\* handleSubmit up to the await (lines 549-583) and the autosave effect on
\* the history with the utterance
SessionSubmit ==
    /\ probe.fn = "session"
    /\ ui.mounted
    /\ ~SubmitReturnsEarly(UserMessage.text, ui.loading)
    /\ ~ui.effectDue
    /\ ~ui.showResumeDialog
    /\ probe.turns < MaxSessionTurns
    /\ \E accepts \in (IF probe.fresh /\ ui.currentTodoId /= "" THEN BOOLEAN ELSE {FALSE}) :
         LET userMessage == IF accepts THEN AcceptMessage ELSE UserMessage.text
             newMessages == Append(ui.messages, ChatMessage("user", userMessage, "message"))
             submitted == [ui EXCEPT
                             !.messages = newMessages,
                             !.loading = TRUE,
                             !.error = << >>,
                             !.closure = [messages |-> ui.messages,
                                          newMessages |-> newMessages,
                                          currentTodoId |-> ui.currentTodoId]]
         IN  /\ ui' = submitted
             /\ store' = Autosaved(submitted, store)
             /\ probe' = [probe EXCEPT
                            !.turns = @ + 1,
                            !.last = "submitted",
                            !.fresh = FALSE,
                            !.inFlight = @ + 1,
                            !.discarded = << >>,
                            !.begunFor = IF probe.fresh
                                         THEN (IF accepts THEN ui.currentTodoId ELSE "")
                                         ELSE @]
    /\ UNCHANGED turnVars

\* handleSubmit after the await (lines 585-603), the finally clause and the
\* autosave effect; the save effect is due when the record is complete
SessionResolved ==
    /\ probe.fn = "session"
    /\ ui.mounted
    /\ ui.loading
    /\ \E extractedData \in SessionResponses :
         LET resolved == [ui EXCEPT
                            !.extractedMetadata = extractedData.metadata,
                            !.additionalInsights = extractedData.additionalInsights,
                            !.conversationComplete = extractedData.conversationComplete,
                            !.suggestedIssue = IF extractedData.suggestedIssue.t /= "null"
                                               THEN extractedData.suggestedIssue ELSE @,
                            !.issueSelection = IF extractedData.issueSelection.t /= "null"
                                               THEN extractedData.issueSelection ELSE @,
                            !.messages = Append(ui.closure.newMessages,
                                                ChatMessage("assistant",
                                                            extractedData.aiMessage,
                                                            "message")),
                            !.loading = FALSE,
                            !.effectDue = extractedData.conversationComplete]
         IN  /\ ui' = resolved
             /\ store' = Autosaved(resolved, store)
    /\ probe' = [probe EXCEPT !.last = "resolved", !.inFlight = @ - 1]
    /\ UNCHANGED turnVars

\* handleSubmit's catch clause (lines 604-618), the finally clause and the
\* autosave effect on the restored history
SessionRejected ==
    /\ probe.fn = "session"
    /\ ui.mounted
    /\ ui.loading
    /\ LET rejected == [ui EXCEPT
                          !.error = IF ui.closure.currentTodoId /= ""
                                    THEN <<"An error occurred", " - The symptom todo remains in the queue. You can try again or ask me to remove it.">>
                                    ELSE <<"An error occurred">>,
                          !.messages = RestoredMessages(ui.closure),
                          !.loading = FALSE]
       IN  /\ ui' = rejected
           /\ store' = Autosaved(rejected, store)
    /\ probe' = [probe EXCEPT !.last = "rejected", !.inFlight = @ - 1]
    /\ UNCHANGED turnVars

\* issues.find(i => i.id === issueIdOrName ||
\*                  i.name.toLowerCase() === issueIdOrName.toLowerCase()):
\* the index of the first match, 0 when there is none
FindIssue(issues, issueIdOrName) ==
    LET matches == { k \in 1..Len(issues) :
                       \/ IdText(issues[k].id) = issueIdOrName
                       \/ toLowerCase(issues[k].name) = toLowerCase(issueIdOrName) }
    IN  IF matches = {} THEN 0
        ELSE CHOOSE k \in matches : \A j \in matches : k <= j

\* the state after saveSymptomEntry has written the record symptomId, linked
\* to finalIssueId, into the stored data written: the draft is cleared, the
\* todo is completed, the card is shown, the timer of the todo offer is
\* started, the record is cleared and the autosave effect runs
Committed(symptomId, finalIssueId, issues, written) ==
    LET cleared == clearDraft(written, TurnEnv.fails)
        completed == IF ui.currentTodoId /= ""
                     THEN completeSymptomTodo(ui.currentTodoId, cleared, TurnEnv.fails)
                     ELSE [success |-> FALSE, store |-> cleared]
        after == [ui EXCEPT
                    !.issues = issues,
                    !.messages = Append(@, ChatMessage("system", <<symptomId>>,
                                                       "symptom-card")),
                    !.currentTodoId = "",
                    !.offerTimer = TRUE,
                    !.extractedMetadata = NoRecord,
                    !.additionalInsights = << >>,
                    !.conversationComplete = FALSE,
                    !.suggestedIssue = NoSuggestion,
                    !.issueSelection = NoSelection,
                    !.effectDue = FALSE]
    IN  [ui |-> after,
         store |-> Autosaved(after, completed.store),
         last |-> "saved",
         commit |-> [symptomId |-> symptomId, issueId |-> finalIssueId,
                     selection |-> ui.issueSelection,
                     todo |-> IF completed.success THEN ui.currentTodoId ELSE ""]]

\* the state after saveSymptomEntry gave up with an error: with retry the
\* conversation is put back to incomplete and the autosave effect runs
GaveUp(error, retry, written) ==
    LET after == [ui EXCEPT
                    !.error = error,
                    !.conversationComplete = IF retry THEN FALSE ELSE @,
                    !.effectDue = FALSE]
    IN  [ui |-> after,
         store |-> IF retry THEN Autosaved(after, written) ELSE written,
         last |-> IF retry THEN "refused" ELSE "stalled",
         commit |-> NoCommit]

\* saveSymptomEntry (lines 709-851) on the state of the render it runs in
saveSymptomEntry ==
    LET symptomId == ToString(Len(store.symptoms) + 1)
        selection == ui.issueSelection
        entry(finalIssueId) ==
            SymptomEntry(symptomId, ui.extractedMetadata.location.s,
                         ui.extractedMetadata.onset, ui.extractedMetadata.severity,
                         TurnEnv.now, finalIssueId)
    IN  IF selection.t = "object" /\ selection.type = "new"
        THEN IF selection.newIssueName = << >> \/ ~Truthy(selection.newIssueStartDate)
             THEN GaveUp(<<"Missing issue details for new issue">>, FALSE, store)
             ELSE LET newIssue == Issue("n" \o ToString(Len(store.issues) + 1),
                                        selection.newIssueName, "active",
                                        selection.newIssueStartDate, Undefined,
                                        <<symptomId>>)
                      saved == saveIssue(newIssue, store, TurnEnv)
                  IN  IF saved.threw
                      THEN GaveUp(<<"Invalid date range">>, TRUE, store)
                      ELSE Committed(symptomId, newIssue.id,
                                     getIssues("active", saved.store, TurnEnv.fails),
                                     saveSymptom(entry(newIssue.id), saved.store,
                                                 TurnEnv.fails))
        ELSE IF selection.t = "object" /\ selection.type = "existing"
                  /\ selection.existingIssueId /= << >>
        THEN LET matched == FindIssue(ui.issues, selection.existingIssueId)
             IN  IF matched = 0
                 THEN GaveUp(<<"Could not find issue \"">> \o selection.existingIssueId
                               \o <<"\"">>, TRUE, store)
                 ELSE LET finalIssueId == ui.issues[matched].id
                          linked == linkSymptomToIssue(
                                      symptomId, finalIssueId,
                                      saveSymptom(entry(finalIssueId), store, TurnEnv.fails),
                                      TurnEnv)
                      IN  IF linked.threw
                          THEN GaveUp(<<"Symptom or issue not found">>, TRUE, linked.store)
                          ELSE Committed(symptomId, finalIssueId, ui.issues, linked.store)
        ELSE Committed(symptomId, "", ui.issues,
                       saveSymptom(entry(""), store, TurnEnv.fails))

\* the save effect (lines 705-854) of the render after a complete response
SessionCommit ==
    /\ probe.fn = "session"
    /\ ui.mounted
    /\ ui.effectDue
    /\ \E done \in {saveSymptomEntry} :
         /\ ui' = done.ui
         /\ store' = done.store
         /\ probe' = [probe EXCEPT !.last = done.last, !.commit = done.commit,
                                   !.fresh = IF done.last = "saved" THEN TRUE ELSE @]
    /\ UNCHANGED turnVars

\* the setTimeout callback of the save effect (lines 817-834) and the
\* autosave effect on the history with the offer
SessionOffer ==
    /\ probe.fn = "session"
    /\ ui.mounted
    /\ ui.offerTimer
    /\ ~ui.effectDue
    /\ LET todos == getSymptomTodos(store, TurnEnv.fails)
           offered == [ui EXCEPT
                         !.offerTimer = FALSE,
                         !.currentTodoId = todos[1].id,
                         !.processingTodos = FALSE,
                         !.messages = Append(@, ChatMessage("assistant",
                                        <<"You also mentioned ">> \o todos[1].symptom
                                          \o <<". Would you like to log that now?">>,
                                        "message"))]
       IN  IF Len(todos) > 0 /\ ~ui.processingTodos
           THEN /\ ui' = offered
                /\ store' = Autosaved(offered, store)
           ELSE /\ ui' = [ui EXCEPT !.offerTimer = FALSE]
                /\ store' = store
    /\ probe' = [probe EXCEPT !.last = "timer"]
    /\ UNCHANGED turnVars

\* handleReset (lines 623-643), offered while the history has more than one
\* message
SessionReset ==
    /\ probe.fn = "session"
    /\ ui.mounted
    /\ ~ui.effectDue
    /\ ~ui.showResumeDialog
    /\ Len(ui.messages) > 1
    /\ ui' = [ui EXCEPT
                !.messages = << >>,
                !.error = << >>,
                !.extractedMetadata = NoRecord,
                !.additionalInsights = << >>,
                !.conversationComplete = FALSE,
                !.suggestedIssue = NoSuggestion,
                !.issueSelection = NoSelection,
                !.processingTodos = FALSE,
                !.currentTodoId = ""]
    /\ store' = clearDraft(store, TurnEnv.fails)
    /\ probe' = [probe EXCEPT !.last = "reset", !.fresh = TRUE, !.begunFor = "",
                               !.discarded = IF ui.loading THEN ui.messages ELSE << >>]
    /\ UNCHANGED turnVars

SessionNext ==
    \/ SessionMount
    \/ SessionResume
    \/ SessionStartFresh
    \/ SessionDismiss
    \/ SessionSubmit
    \/ SessionSubmitIgnored
    \/ SessionResolved
    \/ SessionRejected
    \/ SessionCommit
    \/ SessionOffer
    \/ SessionReset

SessionSpec == SessionInit /\ [][SessionNext]_vars

----------------------------------------------------------------------------
(* Vocabulary of the session properties *)

\* a draft was stored at the start and was more than 24 hours old
StartExpired ==
    /\ probe.startDraft /= NoDraft
    /\ SessionNow - probe.startDraft.timestamp > 86400000

\* a draft was stored at the start and was at most 24 hours old
StartResumable ==
    /\ probe.startDraft /= NoDraft
    /\ SessionNow - probe.startDraft.timestamp <= 86400000

\* the messages of a history that the draft of the earlier session held,
\* the greeting of every conversation aside
OldContent(chat) ==
    { i \in 1..Len(chat) :
        chat[i] /= GreetingMessage /\ \E j \in 1..Len(OldMessages) : chat[i] = OldMessages[j] }

\* the step runs the save effect on a complete record
SaveEffectStep == probe.fn = "session" /\ ui.mounted /\ ui.effectDue

\* a record is written in the step
RecordWritten == store'.symptoms /= store.symptoms

----------------------------------------------------------------------------
(* C21 *)

\* C21: a pending Todo Item is removed at record commit only if the
\* committed conversation is the one begun for that item (the user accepted
\* the offer to log it); committing a record for some other subject, or
\* after the user did not take up the offer, leaves the item in the queue.
C21_Original ==
    (probe.fn = "session" /\ probe.last = "saved" /\ probe.commit.todo /= "")
        => probe.commit.todo = probe.begunFor

----------------------------------------------------------------------------
(* C23 *)

\* C23: at conversation start, resume is offered if and only if a stored
\* snapshot exists and is not expired; an expired snapshot is removed from
\* the store and none of its contents ever enters the conversation state.
C23_ResumeOffered ==
    (probe.fn = "session" /\ ui.mounted) =>
        /\ probe.last = "mounted" =>
             /\ ui.showResumeDialog <=> StartResumable
             /\ ui.showResumeDialog => ui.pendingDraft = probe.startDraft
        /\ StartExpired =>
             /\ store.draft /= probe.startDraft
             /\ store.draft /= NoDraft => OldContent(store.draft.messages) = {}
             /\ ~ui.showResumeDialog
             /\ ui.pendingDraft = NoDraft
             /\ OldContent(ui.messages) = {}
             /\ ui.extractedMetadata /= probe.startDraft.extractedMetadata
             /\ ui.additionalInsights /= probe.startDraft.additionalInsights
             /\ ui.suggestedIssue /= probe.startDraft.suggestedIssue
             /\ ui.issueSelection /= probe.startDraft.issueSelection

\* a draft of 24 hours and one second was found at the start, and the
\* conversation has gone through a turn since
C23_Witness ==
    /\ probe.fn = "session"
    /\ ui.mounted
    /\ StartExpired
    /\ probe.last = "resolved"
    /\ Len(ui.messages) = 3
    /\ store.draft /= NoDraft

----------------------------------------------------------------------------
(* C24 *)

\* C24: after a record has been committed, the Draft Snapshot store holds no
\* snapshot once the commit's state updates have settled, and no snapshot
\* reappears before the user submits a new utterance.
C24_Original ==
    (/\ probe.fn = "session"
     /\ probe.last \in {"saved", "timer"}
     /\ probe.fresh
     /\ probe.commit /= NoCommit)
        => store.draft = NoDraft

----------------------------------------------------------------------------
(* C25 *)

\* C25: after every turn that ends with the record incomplete, the stored
\* Draft Snapshot equals the conversation's current state (history,
\* in-progress record, insights, suggested linkage, issue selection,
\* complete = false), written as one whole snapshot that replaces the
\* previous one.
C25_Original ==
    (/\ probe.fn = "session"
     /\ probe.last \in {"resolved", "rejected"}
     /\ ~ui.conversationComplete)
        => /\ store.draft /= NoDraft
           /\ store.draft.messages = ui.messages
           /\ store.draft.extractedMetadata = ui.extractedMetadata
           /\ store.draft.additionalInsights = ui.additionalInsights
           /\ store.draft.suggestedIssue = ui.suggestedIssue
           /\ store.draft.issueSelection = ui.issueSelection
           /\ store.draft.conversationComplete = FALSE

----------------------------------------------------------------------------
(* C26 *)

\* C26: resolving an Issue Selection of type existing prefers the
\* identifier: if the reference equals the id of active issue A and also
\* equals, case-insensitively, the name of a different active issue B, the
\* record is linked to A, whatever the order of the issue list.
C26_Original ==
    [][(/\ SaveEffectStep
        /\ ui.issueSelection.t = "object"
        /\ ui.issueSelection.type = "existing")
         => \A a, b \in 1..Len(ui.issues) :
              (/\ a /= b
               /\ IdText(ui.issues[a].id) = ui.issueSelection.existingIssueId
               /\ toLowerCase(ui.issues[b].name)
                    = toLowerCase(ui.issueSelection.existingIssueId))
                => /\ RecordWritten
                   /\ store'.symptoms[Len(store'.symptoms)].issueId = ui.issues[a].id]_vars

----------------------------------------------------------------------------
(* C27 *)

\* the selection is of type existing and its reference matches no active
\* issue by id or by case-insensitive name
Unmatched ==
    /\ ui.issueSelection.t = "object"
    /\ ui.issueSelection.type = "existing"
    /\ \A k \in 1..Len(ui.issues) :
         /\ IdText(ui.issues[k].id) /= ui.issueSelection.existingIssueId
         /\ toLowerCase(ui.issues[k].name)
              /= toLowerCase(ui.issueSelection.existingIssueId)

\* C27: when the Issue Selection has type existing and its reference matches
\* no active issue by id or by case-insensitive name, resolution fails: no
\* record and no issue is written, an error is surfaced to the user, and the
\* conversation is put back into the incomplete state so that the user can
\* be re-prompted.
C27_Original ==
    [][(SaveEffectStep /\ Unmatched)
         => /\ store'.symptoms = store.symptoms
            /\ store'.issues = store.issues
            /\ ui'.error /= << >>
            /\ ~ui'.conversationComplete]_vars

----------------------------------------------------------------------------
(* C28 *)

\* the selection is fully resolved: type none, type existing resolved to a
\* stored issue, or type new with both a name and a start date
FullyResolved ==
    /\ ui.issueSelection.t = "object"
    /\ \/ ui.issueSelection.type = "none"
       \/ /\ ui.issueSelection.type = "existing"
          /\ ~Unmatched
          /\ ui.issueSelection.existingIssueId /= << >>
       \/ /\ ui.issueSelection.type = "new"
          /\ ui.issueSelection.newIssueName /= << >>
          /\ ui.issueSelection.newIssueStartDate.t = "string"

\* C28: a record is committed to storage only when an Issue Selection has
\* been fully resolved (type none, type existing resolved to a stored issue,
\* or type new with both a name and a start date); a conversation declared
\* complete while the Issue Selection is still absent commits nothing.
C28_Original ==
    [][/\ (probe.fn = "session" /\ RecordWritten) => FullyResolved
       /\ (SaveEffectStep /\ ui.issueSelection = NoSelection) => ~RecordWritten]_vars

----------------------------------------------------------------------------
(* C32 *)

\* response i of the turn was a tool request that was carried out
ToolRoundTrip(i) == respLog[i].kind = "tool_use" /\ Len(respLog[i].blocks) > 0

\* the responses of the turn that were failed attempts
FailedAttempts == { i \in 1..Len(respLog) : ~ToolRoundTrip(i) }

\* C32: a tool round-trip consumes one of the 5 total iterations but none of
\* the 3 validation attempts: if the generator answers with k tool requests
\* (k <= 4) and then a valid response, processChatMessage returns that
\* response as a success; and after tool round-trips a turn still has its 3
\* validation attempts.  So at the default maxRetries = 3 a turn is given up
\* only when the 5 iterations are used up or 3 of its responses have failed.
C32_Original ==
    (DefaultSettings /\ outcome = "thrown") =>
        \/ thrown = IterationLimitMessage
        \/ Cardinality(FailedAttempts) >= 3

----------------------------------------------------------------------------
(* C33 *)

\* the record was evaluated, its severity is below 7, its location is not
\* critical, and its onset is the calendar date n days before today
OnsetDaysAgoOnly(n) ==
    /\ probe.fn = "trigger"
    /\ probe.step /= "input"
    /\ ~HighSeverity(probe.metadata)
    /\ ~CriticalLocation(probe.metadata)
    /\ probe.metadata.onset.t = "string"
    /\ probe.metadata.onset.date.fmt = "ymd"
    /\ probe.metadata.onset.date.parse = "real"
    /\ LocalDay(probe.env) - probe.metadata.onset.date.day = n

\* C33: the duration condition of the Trigger Evaluator is strict in
\* calendar days: a record with severity < 7 and a non-critical location
\* whose onset is exactly 5 days before today does not fire, whatever the
\* time of day of the evaluation, and the same record with an onset 6 days
\* before today fires.
C33_Original ==
    /\ OnsetDaysAgoOnly(5) => ~probe.fires
    /\ OnsetDaysAgoOnly(6) => probe.fires

----------------------------------------------------------------------------
(* C34 *)

\* the validator ran on a response whose metadata is an object and whose
\* onset is the calendar date that is n days after the local today
OnsetDaysAhead(n) ==
    /\ probe.fn = "parseAndValidate"
    /\ probe.step /= "input"
    /\ probe.data.t = "object"
    /\ probe.data.metadata.t = "object"
    /\ probe.data.metadata.onset.t = "string"
    /\ probe.data.metadata.onset.date.fmt = "ymd"
    /\ probe.data.metadata.onset.date.parse = "real"
    /\ probe.data.metadata.onset.date.day - LocalDay(probe.env) = n

\* C34: parseAndValidate rejects every onset whose calendar date is after
\* the current local calendar date, in every time zone and at every time of
\* day, and accepts today's date.
C34_Original ==
    /\ \A n \in 1..3 : OnsetDaysAhead(n) => ~probe.out.success
    /\ (/\ OnsetDaysAhead(0)
        /\ LocationOk(probe.data.metadata)
        /\ SeverityOk(probe.data.metadata)) => probe.out.success

----------------------------------------------------------------------------
(* C35 *)

\* the record written last is linked to a stored issue in both directions
LastRecordLinked(st) ==
    \E k \in 1..Len(st.issues) :
        /\ st.issues[k].id = st.symptoms[Len(st.symptoms)].issueId
        /\ \E j \in 1..Len(st.issues[k].symptomIds) :
             st.issues[k].symptomIds[j] = st.symptoms[Len(st.symptoms)].id

\* C35: whenever a record is committed while the Issue Selection has type
\* existing, the committed record is linked to a stored issue (its issueId is
\* that issue's id and the issue lists the record); a selection of type
\* existing, including one whose reference is empty or missing, never results
\* in an unlinked record.
C35_Original ==
    [][(/\ SaveEffectStep
        /\ ui.issueSelection.t = "object"
        /\ ui.issueSelection.type = "existing"
        /\ RecordWritten)
         => LastRecordLinked(store')]_vars

----------------------------------------------------------------------------
(* C37 *)

\* C37: a non-expired snapshot found in the store at conversation start
\* stays in the store unchanged until the user chooses Resume or Start
\* Fresh: showing the greeting and the resume dialog neither overwrites it
\* nor renews its timestamp.
C37_Original ==
    (/\ probe.fn = "session"
     /\ ui.mounted
     /\ StartResumable
     /\ probe.last \in {"mounted", "dismissed"})
        => store.draft = probe.startDraft

----------------------------------------------------------------------------
(* C38 *)

\* the messages of a history that were cleared while a call was awaited
Discarded(chat) ==
    { i \in 1..Len(chat) : \E j \in 1..Len(probe.discarded) : chat[i] = probe.discarded[j] }

\* C38: an explicit discard is final even when it races with a turn: if the
\* user clears the chat while a processChatMessage call is in flight, then
\* after that call resolves neither the visible history nor the Draft
\* Snapshot store contains messages of the discarded conversation, and its
\* record is not committed.
C38_Original ==
    (/\ probe.fn = "session"
     /\ ui.mounted
     /\ probe.discarded /= << >>
     /\ ~ui.loading)
        => /\ Discarded(ui.messages) = {}
           /\ store.draft /= NoDraft => Discarded(store.draft.messages) = {}
           /\ probe.last /= "saved"

----------------------------------------------------------------------------
(* C31 *)

\* C31: at most one processChatMessage call is in flight at any time: a
\* submit that arrives while a turn is in progress is ignored and changes
\* neither the history, the extracted record nor the todo queue.
C31_OneCallInFlight ==
    [][(probe.fn = "session" /\ ui.mounted) =>
         /\ probe'.inFlight <= 1
         /\ ui.loading =>
              /\ probe.inFlight = 1
              /\ probe'.turns = probe.turns
         /\ probe'.ignored /= probe.ignored =>
              /\ ui'.messages = ui.messages
              /\ ui'.extractedMetadata = ui.extractedMetadata
              /\ store'.todos = store.todos]_vars

\* a submit arrived while the first call was awaited and returned early
C31_Witness ==
    /\ probe.fn = "session"
    /\ ui.mounted
    /\ ui.loading
    /\ probe.ignored
    /\ probe.inFlight = 1
    /\ Len(ui.messages) = 2

----------------------------------------------------------------------------
(* C39 *)

\* C39: a turn that fails leaves the Todo Queue as it was before the turn:
\* queue mutations made by manage_symptom_todos tool calls during a turn in
\* which processChatMessage finally throws do not persist, in line with the
\* rollback of the user's utterance.
C39_Original ==
    (/\ probe = NoProbe
     /\ ui.mounted
     /\ ui.last = "rejected")
        => store.todos = ui.atSubmit.todos

----------------------------------------------------------------------------
(* C40 *)

\* the user submits a reply while the offer of a pending todo stands
ReplyToOffer ==
    /\ probe = NoProbe
    /\ ui.mounted
    /\ ~ui.loading
    /\ ui.currentTodoId /= ""
    /\ ui.messages[Len(ui.messages)].role = "assistant"
    /\ ui'.loading

\* C40: when the user replies to a todo continuation offer made after a
\* commit ('You also mentioned X. Would you like to log that now?'), that
\* turn is processed in multi-symptom continuation mode: processChatMessage
\* is called with isMultiSymptomContinuation = true and the
\* format-enforcement reminder is inserted before the user's utterance.
C40_Original ==
    [][ReplyToOffer =>
         /\ Len(messages') >= 2
         /\ messages'[Len(messages') - 1] = SystemReminder]_vars

----------------------------------------------------------------------------
(* The links between records and issues *)

MaxLinkCalls == 2

\* deleteSymptom(id)
deleteSymptom(id, st, env) ==
    LET data == getData(st, env.fails)
        linkedTo == { data.symptoms[k].issueId :
                        k \in { j \in 1..Len(data.symptoms) :
                                  data.symptoms[j].id = id /\ data.symptoms[j].issueId /= "" } }
    IN  Done(setData(SelectSeq(data.symptoms, LAMBDA s : s.id /= id),
                     [k \in 1..Len(data.issues) |->
                        IF data.issues[k].id \in linkedTo
                             /\ k = IssueIndex(data.issues, data.issues[k].id)
                        THEN [data.issues[k] EXCEPT
                                !.symptomIds = SelectSeq(@, LAMBDA sid : sid /= id)]
                        ELSE data.issues[k]],
                     st, env.fails))

\* unlinkSymptomFromIssue(symptomId)
unlinkSymptomFromIssue(symptomId, st, env) ==
    LET data == getData(st, env.fails)
        linkedTo == { data.symptoms[k].issueId :
                        k \in { j \in 1..Len(data.symptoms) :
                                  data.symptoms[j].id = symptomId
                                    /\ data.symptoms[j].issueId /= "" } }
    IN  IF linkedTo = {} THEN Done(st)
        ELSE Done(setData(
               [k \in 1..Len(data.symptoms) |->
                  IF data.symptoms[k].id = symptomId
                  THEN [data.symptoms[k] EXCEPT !.issueId = ""]
                  ELSE data.symptoms[k]],
               [k \in 1..Len(data.issues) |->
                  IF data.issues[k].id \in linkedTo
                       /\ k = IssueIndex(data.issues, data.issues[k].id)
                  THEN [data.issues[k] EXCEPT
                          !.symptomIds = SelectSeq(@, LAMBDA sid : sid /= symptomId)]
                  ELSE data.issues[k]],
               st, env.fails))

\* the ids given: of a linked entry, of an unlinked entry and of none
SymptomIdInputs == {"s1", "s2", "s9"}

LinkInit ==
    /\ TurnIdle
    /\ store = [EmptyStore EXCEPT !.symptoms = StoredSymptoms, !.issues = StoredIssues]
    /\ ui = NoUi
    /\ probe = [fn |-> "link", calls |-> 0, op |-> "none", id |-> "", arg |-> "",
                fails |-> FALSE, threw |-> FALSE]

\* one call of a storage function: r is what it came to
CallLink(op, id, arg, fails, r) ==
    /\ probe.fn = "link"
    /\ probe.calls < MaxLinkCalls
    /\ probe' = [probe EXCEPT !.calls = @ + 1, !.op = op, !.id = id, !.arg = arg,
                              !.fails = fails, !.threw = r.threw]
    /\ store' = r.store
    /\ UNCHANGED <<turnVars, ui>>

\* the storage writes of a record commit (ChatInterface.tsx 715-772) for a
\* selection that names no issue or resolves to a stored issue: saveSymptom,
\* then linkSymptomToIssue
CallCommit ==
    \E fails \in BOOLEAN :
      \E issueId \in ({""} \cup { store.issues[k].id : k \in 1..Len(store.issues) }) :
        LET symptomId == "c" \o ToString(probe.calls + 1)
            saved == saveSymptom(SymptomEntry(symptomId, "head", Null, Null,
                                              TurnEnv.now, issueId),
                                 store, fails)
        IN  CallLink("commit", symptomId, issueId, fails,
                     IF issueId = "" THEN Done(saved)
                     ELSE linkSymptomToIssue(symptomId, issueId, saved, IssueEnv(fails)))

CallLinkSymptomToIssue ==
    \E symptomId \in SymptomIdInputs, issueId \in IssueIdInputs, fails \in BOOLEAN :
        CallLink("linkSymptomToIssue", symptomId, issueId, fails,
                 linkSymptomToIssue(symptomId, issueId, store, IssueEnv(fails)))

CallUnlinkSymptomFromIssue ==
    \E symptomId \in SymptomIdInputs, fails \in BOOLEAN :
        CallLink("unlinkSymptomFromIssue", symptomId, "", fails,
                 unlinkSymptomFromIssue(symptomId, store, IssueEnv(fails)))

CallDeleteSymptom ==
    \E id \in SymptomIdInputs, fails \in BOOLEAN :
        CallLink("deleteSymptom", id, "", fails,
                 deleteSymptom(id, store, IssueEnv(fails)))

CallDeleteLinkedIssue ==
    \E id \in IssueIdInputs, fails \in BOOLEAN :
        CallLink("deleteIssue", id, "", fails,
                 deleteIssue(id, store, IssueEnv(fails)))

LinkNext ==
    \/ CallCommit
    \/ CallLinkSymptomToIssue
    \/ CallUnlinkSymptomFromIssue
    \/ CallDeleteSymptom
    \/ CallDeleteLinkedIssue

LinkSpec == LinkInit /\ [][LinkNext]_vars

----------------------------------------------------------------------------
(* C36 *)

\* issue k of the stored data lists the entry with this id
Lists(st, k, id) ==
    \E j \in 1..Len(st.issues[k].symptomIds) : st.issues[k].symptomIds[j] = id

\* C36: record-issue links stay consistent in both directions: after any
\* sequence of record commits, linkSymptomToIssue, unlinkSymptomFromIssue,
\* deleteSymptom and deleteIssue, a stored symptom s has issueId = i if and
\* only if stored issue i lists s in its symptomIds; no issue lists a
\* symptom that is deleted or linked to another issue.
C36_Original ==
    probe.fn = "link" =>
        /\ \A s \in 1..Len(store.symptoms), k \in 1..Len(store.issues) :
             store.symptoms[s].issueId = store.issues[k].id
                <=> Lists(store, k, store.symptoms[s].id)
        /\ \A k \in 1..Len(store.issues) : \A j \in 1..Len(store.issues[k].symptomIds) :
             \E s \in 1..Len(store.symptoms) :
                store.symptoms[s].id = store.issues[k].symptomIds[j]

====
